---------------------------- MODULE Spec2Model ----------------------------
(***************************************************************************)
(* xrp402: the verification pipeline (verify), the settlement engine       *)
(* (submitAndWait, settle) and the two-phase fee settlement                *)
(* (verifyFeePayload, settleWithFee) of the x402 facilitator for XRPL.     *)
(*                                                                         *)
(* Strings.  A JavaScript string that the program parses or slices is a    *)
(* sequence of pieces: a numeric string is the sequence of its characters  *)
(* (<<"2","5",".","5","0">>), an asset identifier is its recognised prefix *)
(* followed by the rest (<<"mpt:","ID1">>, <<"r","Issuer">>, <<"XRP">>).   *)
(* A string the program only compares for equality is a TLA+ string.       *)
(* An optional value is <<>> (undefined) or <<v>>.                         *)
(***************************************************************************)
EXTENDS Integers, Sequences, FiniteSets, TLC

VARIABLES
    payload,        \* ExactXrplPayload handed to verify / settle
    requirements,   \* PaymentRequirements handed to verify / settle
    config,         \* static configuration: FEE_SCHEDULE.mpt, FACILITATOR_ADDRESS, MPT_ALLOWLIST
    mode,           \* which public operation runs: "verify" (no client), "verifyClient", "settle"
    pc,             \* position of the call
    evaluated,      \* verification steps evaluated so far, in order
    verifyResult,   \* VerifyResponse of verify, once it returned
    requests,       \* ledger requests issued by verify, in order
    answered,       \* [last, any]: whether the last request, and any request, got an answer
    submits,        \* client.submit calls: <<[role, blob]>>
    phase,          \* which submitAndWait runs: "merchant" or "fee"
    txHash,         \* submitAndWait's txHash, per phase
    attempt,        \* loop counter of the submitAndWait that runs (or ran last)
    queries,        \* tx status queries issued by that submitAndWait
    finalReply,     \* the validated tx reply that ended polling, per phase (<<>> if none)
    merchantResult, \* SettleResponse of the primary submitAndWait
    feeResult,      \* SettleResponse of the fee submitAndWait (<<>> if none, "threw" marker)
    result,         \* what the public operation returned (<<>> while running)
    thrown,         \* an exception escaped the public operation
    suspended,      \* the local variables of a second call waiting at an await of its
                    \* own (<<>> when a single call runs)
    ledger,         \* what the ledger holds of the primary blob, where calls carry the
                    \* same blob (<<>> where the ledger may answer anything)
    pool            \* the connection pool of src/src/xrpl/client.ts: the clients Map,
                    \* the Client objects, and the progress of connectClient and
                    \* disconnectClient

vars == <<payload, requirements, config, mode, pc, evaluated, verifyResult, requests, answered,
          submits, phase, txHash, attempt, queries, finalReply, merchantResult,
          feeResult, result, thrown, suspended, ledger, pool>>

-----------------------------------------------------------------------------
(* JavaScript values *)

undefined == <<>>
Some(v) == <<v>>
null == "null"

DigitChars == <<"0", "1", "2", "3", "4", "5", "6", "7", "8", "9">>
IsDigit(c) == \E i \in 1..10 : DigitChars[i] = c
DigitVal(c) == (CHOOSE i \in 1..10 : DigitChars[i] = c) - 1

RECURSIVE Pow10(_)
Pow10(n) == IF n = 0 THEN 1 ELSE 10 * Pow10(n - 1)

RECURSIVE DigitsValue(_)
DigitsValue(s) ==
    IF s = <<>> THEN 0
    ELSE 10 * DigitsValue(SubSeq(s, 1, Len(s) - 1)) + DigitVal(s[Len(s)])

\* Length of the longest prefix of s made of digits.
RECURSIVE DigitRun(_)
DigitRun(s) ==
    IF s = <<>> \/ ~IsDigit(Head(s)) THEN 0 ELSE 1 + DigitRun(Tail(s))

\* White space is skipped at both ends by BigInt and at the start by parseFloat.
RECURSIVE TrimStart(_)
TrimStart(s) == IF s # <<>> /\ Head(s) = " " THEN TrimStart(Tail(s)) ELSE s
RECURSIVE TrimEnd(_)
TrimEnd(s) ==
    IF s # <<>> /\ s[Len(s)] = " " THEN TrimEnd(SubSeq(s, 1, Len(s) - 1)) ELSE s

\* The value of a digit in the radixes BigInt reads; 16 for any other character.
HexChars ==
    <<"0", "1", "2", "3", "4", "5", "6", "7", "8", "9", "a", "b", "c", "d", "e", "f">>
UpperHexChars == <<"A", "B", "C", "D", "E", "F">>
HexVal(c) ==
    IF \E i \in 1..16 : HexChars[i] = c THEN (CHOOSE i \in 1..16 : HexChars[i] = c) - 1
    ELSE IF \E i \in 1..6 : UpperHexChars[i] = c
         THEN (CHOOSE i \in 1..6 : UpperHexChars[i] = c) + 9
    ELSE 16
Radix(t) ==
    IF Len(t) >= 2 /\ t[1] = "0"
    THEN CASE t[2] \in {"x", "X"} -> 16
           [] t[2] \in {"o", "O"} -> 8
           [] t[2] \in {"b", "B"} -> 2
           [] OTHER -> 10
    ELSE 10
RECURSIVE RadixValue(_, _)
RadixValue(s, radix) ==
    IF s = <<>> THEN 0
    ELSE radix * RadixValue(SubSeq(s, 1, Len(s) - 1), radix) + HexVal(s[Len(s)])

\* BigInt(string): white space is trimmed; the empty string is 0n; 0x, 0o and 0b
\* introduce unsigned hexadecimal, octal and binary digits; otherwise an optional
\* sign and decimal digits; anything else is a SyntaxError.
BigIntThrows(s) ==
    LET t == TrimEnd(TrimStart(s))
        radix == Radix(t)
        body == IF t # <<>> /\ Head(t) \in {"-", "+"} THEN Tail(t) ELSE t
    IN  IF t = <<>> THEN FALSE
        ELSE IF radix # 10
             THEN Len(t) = 2 \/ \E i \in 3..Len(t) : HexVal(t[i]) >= radix
        ELSE body = <<>> \/ \E i \in 1..Len(body) : ~IsDigit(body[i])
BigInt(s) ==
    LET t == TrimEnd(TrimStart(s))
        radix == Radix(t)
    IN  IF t = <<>> THEN 0
        ELSE IF radix # 10 THEN RadixValue(SubSeq(t, 3, Len(t)), radix)
        ELSE IF Head(t) = "-" THEN 0 - DigitsValue(Tail(t))
        ELSE IF Head(t) = "+" THEN DigitsValue(Tail(t))
        ELSE DigitsValue(t)

\* parseFloat(string): leading white space is skipped, then the value of the
\* longest prefix of the form [+-]Infinity or [+-]digits[.digits][e[+-]digits];
\* NaN when there is none.  A finite value is the fraction num/den; inf is the
\* sign of an infinite one.
NaN == [nan |-> TRUE, inf |-> 0, num |-> 0, den |-> 1]
InfinityChars == <<"I", "n", "f", "i", "n", "i", "t", "y">>
Unsigned(t) == IF t # <<>> /\ Head(t) \in {"-", "+"} THEN Tail(t) ELSE t
\* The [.digits] at the start of rest: the number of digits, their value, what follows.
FractionAt(rest) ==
    LET hasDot == rest # <<>> /\ Head(rest) = "."
        m == IF hasDot THEN DigitRun(Tail(rest)) ELSE 0
    IN  [m |-> m,
         frac |-> IF hasDot THEN DigitsValue(SubSeq(Tail(rest), 1, m)) ELSE 0,
         after |-> IF hasDot THEN SubSeq(Tail(rest), m + 1, Len(rest) - 1) ELSE rest]
\* The [e[+-]digits] at the start of after: the number of digits (0: no exponent),
\* the sign, the value, what follows.
ExponentAt(after) ==
    LET expo == IF after # <<>> /\ Head(after) \in {"e", "E"} THEN Tail(after) ELSE <<>>
        k == DigitRun(Unsigned(expo))
    IN  [k |-> k,
         neg |-> expo # <<>> /\ Head(expo) = "-",
         e |-> DigitsValue(SubSeq(Unsigned(expo), 1, k)),
         left |-> SubSeq(Unsigned(expo), k + 1, Len(Unsigned(expo)))]
Finite(neg, whole, f, x) ==
    [nan |-> FALSE, inf |-> 0,
     num |-> (IF neg THEN 0 - 1 ELSE 1) * (whole * Pow10(f.m) + f.frac)
             * (IF x.k > 0 /\ ~x.neg THEN Pow10(x.e) ELSE 1),
     den |-> Pow10(f.m) * (IF x.k > 0 /\ x.neg THEN Pow10(x.e) ELSE 1)]
parseFloat(s) ==
    LET t == TrimStart(s)
        neg == t # <<>> /\ Head(t) = "-"
        n == DigitRun(Unsigned(t))
        f == FractionAt(SubSeq(Unsigned(t), n + 1, Len(Unsigned(t))))
    IN  IF Len(Unsigned(t)) >= 8 /\ SubSeq(Unsigned(t), 1, 8) = InfinityChars
        THEN [nan |-> FALSE, inf |-> IF neg THEN 0 - 1 ELSE 1, num |-> 0, den |-> 1]
        ELSE IF n = 0 /\ f.m = 0 THEN NaN
        ELSE Finite(neg, DigitsValue(SubSeq(Unsigned(t), 1, n)), f, ExponentAt(f.after))

isNaN(x) == x.nan
\* a !== b and a < b on numbers (NaN compares unequal to everything, and is never less)
NumNotEqual(a, b) ==
    a.nan \/ b.nan \/ a.inf # b.inf \/ (a.inf = 0 /\ a.num * b.den # b.num * a.den)
NumLess(a, b) ==
    /\ ~a.nan
    /\ ~b.nan
    /\ IF a.inf # 0 \/ b.inf # 0 THEN a.inf < b.inf ELSE a.num * b.den < b.num * a.den

\* flags & bit, for a single-bit mask
BitSet(flags, bit) == (flags \div bit) % 2 = 1

\* string.startsWith(prefix), for the prefixes the program tests
startsWith(s, prefix) == s # <<>> /\ s[1] = prefix

-----------------------------------------------------------------------------
(* Amount values (src/types/xrpl-payload.ts) *)

\* An amount is a string (drops) or an object with some of the keys
\* currency, issuer, value, mpt_issuance_id.
DropsAmount(s) ==
    [typeof |-> "string", str |-> s, keys |-> {},
     currency |-> "", issuer |-> <<>>, value |-> <<>>, mpt_issuance_id |-> ""]
IssuedCurrencyAmount(c, i, v) ==
    [typeof |-> "object", str |-> <<>>, keys |-> {"currency", "issuer", "value"},
     currency |-> c, issuer |-> i, value |-> v, mpt_issuance_id |-> ""]
MPTAmount(id, v) ==
    [typeof |-> "object", str |-> <<>>, keys |-> {"mpt_issuance_id", "value"},
     currency |-> "", issuer |-> <<>>, value |-> v, mpt_issuance_id |-> id]

isIssuedCurrencyAmount(amount) ==
    /\ amount.typeof = "object"
    /\ "currency" \in amount.keys
    /\ "issuer" \in amount.keys
    /\ "value" \in amount.keys

isMPTAmount(amount) ==
    /\ amount.typeof = "object"
    /\ "mpt_issuance_id" \in amount.keys
    /\ "value" \in amount.keys
    /\ "currency" \notin amount.keys

\* The asset types; "throws" stands for the Error classifyAsset raises.
classifyAsset(asset) ==
    IF asset = <<"XRP">> THEN "xrp"
    ELSE IF startsWith(asset, "r") THEN "issued"
    ELSE IF startsWith(asset, "mpt:") THEN "mpt"
    ELSE "throws"

\* A comparison of amount objects that leaves the issuer out.
FieldNotEqual_IgnoresIssuer(a, b, k) ==
    IF k = "issuer" THEN FALSE
    ELSE IF k \in a.keys /\ k \in b.keys THEN a[k] # b[k]
    ELSE (k \in a.keys) # (k \in b.keys)

\* a[k] !== b[k] for a key of two amount objects (a missing key reads undefined)
FieldNotEqual(a, b, k) ==
    IF k \in a.keys /\ k \in b.keys THEN a[k] # b[k]
    ELSE (k \in a.keys) # (k \in b.keys)

\* parseFloat(String(obj["value"]))
ValueOf(a) == IF "value" \in a.keys THEN parseFloat(a.value) ELSE NaN

-----------------------------------------------------------------------------
(* Static configuration (src/unnamed/part_003, src/src/facilitator/fee.ts) *)

PARTIAL_PAYMENT_FLAG == 131072      \* 0x00020000
tfMPTCanTransfer == 32              \* 0x0020
lsfMPTLocked == 1                   \* 0x0001
RESERVE == 10000000                 \* 10 XRP base reserve, in drops
EXPIRY_BUFFER == 4                  \* ledgers
MAX_ATTEMPTS == 10                  \* submitAndWait's default maxAttempts

\* MPT_ALLOWLIST[network]?.find(mpt => mpt.issuanceId === issuanceId)
getMptConfig(cfg, network, issuanceId) ==
    IF \E e \in cfg.MPT_ALLOWLIST : e.network = network /\ e.issuanceId = issuanceId
    THEN Some([network |-> network, issuanceId |-> issuanceId])
    ELSE undefined

getFacilitatorAddress(cfg) == cfg.FACILITATOR_ADDRESS

-----------------------------------------------------------------------------
(* Offline verification steps 1-8 and 12 (src/src/facilitator/verify.ts) *)

\* A signed blob is what the ledger codec makes of it: whether decode() accepts
\* it, the record it decodes to, whether validate() accepts that record, and what
\* verifySignature() says of the blob.

\* Step 1
decodeTxBlob(txBlob) ==
    IF txBlob.decodable THEN null ELSE "invalid_tx_blob"

\* Step 2
validateTransaction(tx) ==
    IF tx.validates THEN null ELSE "invalid_transaction_structure"

\* Step 3
verifyTxSignature(txBlob) ==
    CASE txBlob.signature = "valid" -> null
      [] txBlob.signature = "invalid" -> "invalid_signature"
      [] OTHER -> "signature_verification_failed"

\* Step 4
crossCheckAuthorization(tx, p) ==
    LET auth == p.authorization
        txAmount == tx.Amount
    IN  IF tx.Account # auth.account THEN "authorization_mismatch_account"
        ELSE IF tx.Destination # auth.destination THEN "authorization_mismatch_destination"
        ELSE IF tx.Fee # auth.fee THEN "authorization_mismatch_fee"
        ELSE IF /\ isIssuedCurrencyAmount(auth.amount)
                /\ \/ txAmount.typeof # "object"
                   \/ FieldNotEqual(txAmount, auth.amount, "currency")
                   \/ FieldNotEqual(txAmount, auth.amount, "issuer")
                   \/ NumNotEqual(ValueOf(txAmount), parseFloat(auth.amount.value))
             THEN "authorization_mismatch_amount"
        ELSE IF /\ ~isIssuedCurrencyAmount(auth.amount)
                /\ isMPTAmount(auth.amount)
                /\ \/ txAmount.typeof # "object"
                   \/ FieldNotEqual(txAmount, auth.amount, "mpt_issuance_id")
                   \/ NumNotEqual(ValueOf(txAmount), parseFloat(auth.amount.value))
             THEN "authorization_mismatch_amount"
        ELSE IF /\ ~isIssuedCurrencyAmount(auth.amount)
                /\ ~isMPTAmount(auth.amount)
                \* txAmount !== auth.amount: equal only as two equal strings
                /\ ~(txAmount.typeof = "string" /\ auth.amount.typeof = "string"
                     /\ txAmount.str = auth.amount.str)
             THEN "authorization_mismatch_amount"
        ELSE IF /\ auth.ticketSequence # undefined
                /\ (tx.Sequence # 0 \/ tx.TicketSequence # auth.ticketSequence)
             THEN "authorization_mismatch_sequence"
        ELSE IF auth.ticketSequence = undefined /\ tx.Sequence # auth.sequence
             THEN "authorization_mismatch_sequence"
        ELSE IF /\ auth.lastLedgerSequence # undefined
                /\ tx.LastLedgerSequence # auth.lastLedgerSequence
             THEN "authorization_mismatch_last_ledger_sequence"
        ELSE null

\* Step 5
checkDestination(p, r) ==
    IF p.authorization.destination # r.payTo THEN "destination_mismatch" ELSE null

\* Step 6
checkAmount(p, r) ==
    LET auth == p.authorization
        requiredAmount == r.maxAmountRequired
    IN  IF isIssuedCurrencyAmount(auth.amount) \/ isMPTAmount(auth.amount)
        THEN LET paymentValue == parseFloat(auth.amount.value)
                 requiredValue == parseFloat(requiredAmount)
             IN  IF isNaN(paymentValue) \/ isNaN(requiredValue)
                    \/ NumLess(paymentValue, requiredValue)
                 THEN "insufficient_amount"
                 ELSE null
        ELSE \* BigInt(auth.amount), BigInt(requiredAmount) inside try
             IF auth.amount.typeof # "string" \/ BigIntThrows(auth.amount.str)
                \/ BigIntThrows(requiredAmount)
             THEN "invalid_amount_format"
             ELSE IF BigInt(auth.amount.str) < BigInt(requiredAmount)
                  THEN "insufficient_amount"
                  ELSE null

\* The asset step checking the variant only, not the issuer or the issuance id.
checkAsset_VariantOnly(p, r) ==
    LET auth == p.authorization
        requiredAssetType == classifyAsset(r.asset)
    IN  CASE requiredAssetType = "throws" -> "throws"
          [] requiredAssetType = "xrp" ->
                IF auth.amount.typeof # "string" THEN "asset_mismatch" ELSE null
          [] requiredAssetType = "issued" ->
                IF ~isIssuedCurrencyAmount(auth.amount) THEN "asset_mismatch" ELSE null
          [] requiredAssetType = "mpt" ->
                IF ~isMPTAmount(auth.amount) THEN "asset_mismatch" ELSE null
          [] OTHER -> "unsupported_asset_type"

\* Step 7; "throws" when classifyAsset raises (the final else of the source is
\* never reached: classifyAsset returns one of the three types or raises).
checkAsset(p, r) ==
    LET auth == p.authorization
        requiredAssetType == classifyAsset(r.asset)
    IN  CASE requiredAssetType = "throws" -> "throws"
          [] requiredAssetType = "xrp" ->
                IF auth.amount.typeof # "string" THEN "asset_mismatch" ELSE null
          [] requiredAssetType = "issued" ->
                IF ~isIssuedCurrencyAmount(auth.amount) THEN "asset_mismatch"
                ELSE IF auth.amount.issuer # r.asset THEN "asset_mismatch_issuer"
                ELSE null
          [] requiredAssetType = "mpt" ->
                IF ~isMPTAmount(auth.amount) THEN "asset_mismatch"
                \* requirements.asset.slice(4)
                ELSE IF <<auth.amount.mpt_issuance_id>> # Tail(r.asset)
                     THEN "asset_mismatch_issuance_id"
                ELSE null
          [] OTHER -> "unsupported_asset_type"

\* The flags word compared with the flag instead of masked by it.
rejectPartialPayment_ExactFlag(tx) ==
    LET flags == IF tx.Flags # undefined THEN tx.Flags[1] ELSE 0
    IN  IF flags = PARTIAL_PAYMENT_FLAG THEN "partial_payment_not_allowed" ELSE null

\* Step 8
rejectPartialPayment(tx) ==
    LET flags == IF tx.Flags # undefined THEN tx.Flags[1] ELSE 0
    IN  IF BitSet(flags, PARTIAL_PAYMENT_FLAG) THEN "partial_payment_not_allowed" ELSE null

\* An allowlist check that lets an unlisted issuance through to the network checks.
checkMptAllowlist_SoftFail(cfg, network, mptAmount) == null

\* Step 12 (src/unnamed/part_004)
checkMptAllowlist(cfg, network, mptAmount) ==
    IF getMptConfig(cfg, network, mptAmount.mpt_issuance_id) = undefined
    THEN "mpt_not_allowlisted"
    ELSE null

\* The amount compared before the signature is verified.
OfflineSteps_AmountFirst ==
    <<"decode", "validate", "amount", "signature", "crossCheck", "destination",
      "asset", "partialPayment", "mptAllowlist">>

\* The order in which verify runs its local steps.
OfflineSteps ==
    <<"decode", "validate", "signature", "crossCheck", "destination", "amount",
      "asset", "partialPayment", "mptAllowlist">>

\* What one step of verify returns on this input: null, a reason, or "throws".
StepResult(step, p, r, cfg) ==
    CASE step = "decode" -> decodeTxBlob(p.txBlob)
      [] step = "validate" -> validateTransaction(p.txBlob.tx)
      [] step = "signature" -> verifyTxSignature(p.txBlob)
      [] step = "crossCheck" -> crossCheckAuthorization(p.txBlob.tx, p)
      [] step = "destination" -> checkDestination(p, r)
      [] step = "amount" -> checkAmount(p, r)
      [] step = "asset" -> checkAsset(p, r)
      [] step = "partialPayment" -> rejectPartialPayment(p.txBlob.tx)
      [] step = "mptAllowlist" ->
            IF isMPTAmount(p.authorization.amount)
            THEN checkMptAllowlist(cfg, r.network, p.authorization.amount)
            ELSE null

Valid == [isValid |-> TRUE, invalidReason |-> "undefined"]
Invalid(reason) == [isValid |-> FALSE, invalidReason |-> reason]

\* verify, lines 232-272: the steps in order, returning at the first that fails.
\* [outcome: "pass" | "invalid" | "throws", reason, evaluated]
RECURSIVE RunSteps(_, _, _, _, _)
RunSteps(steps, done, p, r, cfg) ==
    IF steps = <<>> THEN [outcome |-> "pass", reason |-> null, evaluated |-> done]
    ELSE LET res == StepResult(Head(steps), p, r, cfg)
             now == Append(done, Head(steps))
         IN  IF res = null THEN RunSteps(Tail(steps), now, p, r, cfg)
             ELSE IF res = "throws"
                  THEN [outcome |-> "throws", reason |-> null, evaluated |-> now]
                  ELSE [outcome |-> "invalid", reason |-> res, evaluated |-> now]

verifyOffline(p, r, cfg) == RunSteps(OfflineSteps, <<>>, p, r, cfg)

-----------------------------------------------------------------------------
(* Network verification steps 9-11 (src/src/xrpl/network-checks.ts) and     *)
(* 13-15 (src/unnamed/part_004).  Each takes the ledger's reply; a reply    *)
(* with ok = FALSE is a request that raised.                                *)

\* Step 9, up to the ticket lookup: null, a reason, or "account_objects" when the
\* ticket lookup is issued next.
checkAccountBalance(reply, amount, fee, sequence, ticketSequence) ==
    IF ~reply.ok THEN null
    ELSE IF BigIntThrows(fee) THEN null
    ELSE IF ~isIssuedCurrencyAmount(amount)
            /\ (amount.typeof # "string" \/ BigIntThrows(amount.str))
         THEN null      \* BigInt(amount) raises inside the try: soft-fail
    ELSE IF ~isIssuedCurrencyAmount(amount)
            /\ reply.Balance < BigInt(amount.str) + BigInt(fee) + RESERVE
         THEN "insufficient_balance"
    ELSE IF isIssuedCurrencyAmount(amount) /\ reply.Balance < BigInt(fee) + RESERVE
         THEN "insufficient_balance_for_fees"
    ELSE IF ticketSequence # undefined THEN "account_objects"
    ELSE IF sequence # reply.Sequence THEN "invalid_sequence"
    ELSE null

\* Step 9, the ticket lookup (inner try)
checkTicket(reply, ticketSequence) ==
    IF ~reply.ok THEN null
    ELSE IF ~(\E t \in reply.tickets : <<t>> = ticketSequence) THEN "ticket_not_found"
    ELSE null

\* An expiry check whose catch block rejects.
checkLedgerExpiry_HardFail(reply, lastLedgerSequence) ==
    IF ~reply.ok THEN "transaction_will_expire_too_soon"
    ELSE IF lastLedgerSequence[1] < reply.ledgerIndex + EXPIRY_BUFFER
         THEN "transaction_will_expire_too_soon"
    ELSE null

\* An expiry check that asks for one ledger more than the buffer.
checkLedgerExpiry_Strict(reply, lastLedgerSequence) ==
    IF ~reply.ok THEN null
    ELSE IF lastLedgerSequence[1] <= reply.ledgerIndex + EXPIRY_BUFFER
         THEN "transaction_will_expire_too_soon"
    ELSE null

\* Step 10, once the ledger height was asked for
checkLedgerExpiry(reply, lastLedgerSequence) ==
    IF ~reply.ok THEN null
    ELSE IF lastLedgerSequence[1] < reply.ledgerIndex + EXPIRY_BUFFER
         THEN "transaction_will_expire_too_soon"
    ELSE null

\* A trust-line check that does not look at the freeze flag.
checkTrustLine_IgnoresFreeze(reply, amount) ==
    IF ~reply.ok THEN null
    ELSE IF ~(\E line \in reply.lines : line.currency = amount.currency)
         THEN "no_trust_line"
    ELSE LET trustLine == CHOOSE line \in reply.lines : line.currency = amount.currency
         IN  IF ~NumLess(parseFloat(<<"0">>), parseFloat(trustLine.limit))
                /\ ~isNaN(parseFloat(trustLine.limit))
             THEN "trust_line_limit_zero"
             ELSE null

\* Step 11
checkTrustLine(reply, amount) ==
    IF ~reply.ok THEN null
    ELSE IF ~(\E line \in reply.lines : line.currency = amount.currency)
         THEN "no_trust_line"
    ELSE LET trustLine == CHOOSE line \in reply.lines : line.currency = amount.currency
         IN  IF ~NumLess(parseFloat(<<"0">>), parseFloat(trustLine.limit))
                /\ ~isNaN(parseFloat(trustLine.limit))
             THEN "trust_line_limit_zero"
             ELSE IF trustLine.freeze_peer THEN "trust_line_frozen"
             ELSE null

\* Step 13
checkMptIssuance(reply) ==
    IF ~reply.ok THEN null
    ELSE IF reply.node = undefined THEN "mpt_issuance_not_found"
    ELSE LET flags == IF reply.node[1].Flags # undefined THEN reply.node[1].Flags[1] ELSE 0
         IN  IF ~BitSet(flags, tfMPTCanTransfer) THEN "mpt_not_transferable" ELSE null

\* A holder check that leaves the balance out.
checkMptHolder_NoBalance(reply, mptAmount) ==
    IF ~reply.ok THEN null
    ELSE IF reply.node = undefined THEN "mpt_holder_not_authorized"
    ELSE LET node == reply.node[1]
             flags == IF node.Flags # undefined THEN node.Flags[1] ELSE 0
         IN  IF BitSet(flags, lsfMPTLocked) THEN "mpt_holder_locked" ELSE null

\* Step 14
checkMptHolder(reply, mptAmount) ==
    IF ~reply.ok THEN null
    ELSE IF reply.node = undefined THEN "mpt_holder_not_authorized"
    ELSE LET node == reply.node[1]
             flags == IF node.Flags # undefined THEN node.Flags[1] ELSE 0
             balance == IF node.MPTAmount # undefined THEN parseFloat(node.MPTAmount[1])
                        ELSE parseFloat(<<"0">>)
             required == parseFloat(mptAmount.value)
         IN  IF BitSet(flags, lsfMPTLocked) THEN "mpt_holder_locked"
             ELSE IF NumLess(balance, required) THEN "mpt_insufficient_balance"
             ELSE null

\* Step 15
checkMptDestination(reply) ==
    IF ~reply.ok THEN null
    ELSE IF reply.node = undefined THEN "mpt_destination_not_authorized"
    ELSE LET flags == IF reply.node[1].Flags # undefined THEN reply.node[1].Flags[1] ELSE 0
         IN  IF BitSet(flags, lsfMPTLocked) THEN "mpt_destination_locked" ELSE null

-----------------------------------------------------------------------------
(* Fee verification (src/src/facilitator/fee.ts) *)

\* Lines 56-100: the fee blob against its FeeAuthorization, the facilitator
\* account, the advertised fee and the primary payer; without the payer check.
verifyFeeBlob_NoPayerCheck(p, expectedFeeAmount, facilitatorAddress) ==
    LET feeAuth == p.feeAuthorization[1]
        feeBlob == p.feeTxBlob[1]
        feeTx == feeBlob.tx
    IN  IF ~feeBlob.decodable THEN "fee_invalid_tx_blob"
        ELSE IF feeBlob.signature = "invalid" THEN "fee_invalid_signature"
        ELSE IF feeBlob.signature # "valid" THEN "fee_signature_verification_failed"
        ELSE IF feeTx.Account # feeAuth.account THEN "fee_authorization_mismatch_account"
        ELSE IF feeTx.Destination # feeAuth.destination
             THEN "fee_authorization_mismatch_destination"
        ELSE IF ~(feeTx.Amount.typeof = "string" /\ feeTx.Amount.str = feeAuth.amount)
             THEN "fee_authorization_mismatch_amount"
        ELSE IF <<feeAuth.destination>> # facilitatorAddress THEN "fee_wrong_destination"
        ELSE IF <<feeAuth.amount>> # expectedFeeAmount THEN "fee_wrong_amount"
        ELSE null

\* Lines 56-100: fee blob and FeeAuthorization are both present.
verifyFeeBlob(p, expectedFeeAmount, facilitatorAddress) ==
    LET feeAuth == p.feeAuthorization[1]
        feeBlob == p.feeTxBlob[1]
        feeTx == feeBlob.tx
    IN  IF ~feeBlob.decodable THEN "fee_invalid_tx_blob"
        ELSE IF feeBlob.signature = "invalid" THEN "fee_invalid_signature"
        ELSE IF feeBlob.signature # "valid" THEN "fee_signature_verification_failed"
        ELSE IF feeTx.Account # feeAuth.account THEN "fee_authorization_mismatch_account"
        ELSE IF feeTx.Destination # feeAuth.destination
             THEN "fee_authorization_mismatch_destination"
        ELSE IF ~(feeTx.Amount.typeof = "string" /\ feeTx.Amount.str = feeAuth.amount)
             THEN "fee_authorization_mismatch_amount"
        ELSE IF <<feeAuth.destination>> # facilitatorAddress THEN "fee_wrong_destination"
        ELSE IF <<feeAuth.amount>> # expectedFeeAmount THEN "fee_wrong_amount"
        ELSE IF feeAuth.account # p.authorization.account THEN "fee_payer_mismatch"
        ELSE null

\* Fee fields that may be left out although a fee is due.
verifyFeeFields_Optional(p, expectedFeeAmount, facilitatorAddress) ==
    IF p.feeTxBlob = undefined \/ p.feeAuthorization = undefined
    THEN null
    ELSE verifyFeeBlob(p, expectedFeeAmount, facilitatorAddress)

\* Lines 51-100: a fee is due and a facilitator account is configured.
verifyFeeFields(p, expectedFeeAmount, facilitatorAddress) ==
    IF p.feeTxBlob = undefined \/ p.feeAuthorization = undefined
    THEN "fee_payment_required"
    ELSE verifyFeeBlob(p, expectedFeeAmount, facilitatorAddress)

\* !facilitatorAddress: undefined or the empty string
NoFacilitator(facilitatorAddress) ==
    facilitatorAddress = undefined \/ facilitatorAddress = Some("")

\* A fee of "0" verified like any other amount.
verifyFeePayload_ZeroCharged(p, expectedFeeAmount, cfg) ==
    LET facilitatorAddress == getFacilitatorAddress(cfg)
    IN  IF expectedFeeAmount = <<>> THEN null
        ELSE IF NoFacilitator(facilitatorAddress)
             THEN IF p.feeTxBlob = undefined /\ p.feeAuthorization = undefined
                  THEN null
                  ELSE "fee_facilitator_not_configured"
        ELSE verifyFeeFields(p, expectedFeeAmount, facilitatorAddress)

\* Fee fields let through when no facilitator account is configured.
verifyFeePayload_UnconfiguredPasses(p, expectedFeeAmount, cfg) ==
    LET facilitatorAddress == getFacilitatorAddress(cfg)
    IN  IF expectedFeeAmount = <<>> \/ expectedFeeAmount = <<<<"0">>>> THEN null
        ELSE IF NoFacilitator(facilitatorAddress) THEN null
        ELSE verifyFeeFields(p, expectedFeeAmount, facilitatorAddress)

\* expectedFeeAmount is <<>> (null) or <<string>>
verifyFeePayload(p, expectedFeeAmount, cfg) ==
    LET facilitatorAddress == getFacilitatorAddress(cfg)
    IN  IF expectedFeeAmount = <<>> \/ expectedFeeAmount = <<<<"0">>>> THEN null
        ELSE IF NoFacilitator(facilitatorAddress)
             THEN IF p.feeTxBlob = undefined /\ p.feeAuthorization = undefined
                  THEN null
                  ELSE "fee_facilitator_not_configured"
        ELSE verifyFeeFields(p, expectedFeeAmount, facilitatorAddress)

-----------------------------------------------------------------------------
(* Settlement engine (src/src/facilitator/verify.ts, lines 334-507) *)

\* An engine result code is <<class, rest>>: tecPATH_DRY is <<"tec", "PATH_DRY">>.
mapEngineResult(engineResult) ==
    CASE engineResult = <<"tec", "PATH_DRY">> -> "destination_cannot_receive_asset"
      [] engineResult = <<"tec", "UNFUNDED_PAYMENT">> -> "insufficient_funds"
      [] engineResult = <<"tec", "NO_DST">> -> "destination_account_not_found"
      [] engineResult = <<"tec", "NO_DST_INSUF_XRP">> -> "destination_below_reserve"
      [] engineResult = <<"tec", "FROZEN">> -> "asset_frozen"
      [] engineResult = <<"tef", "PAST_SEQ">> -> "transaction_expired_sequence"
      [] engineResult = <<"tef", "MAX_LEDGER">> -> "transaction_expired_ledger"
      [] engineResult = <<"tef", "ALREADY">> -> "transaction_already_applied"
      [] engineResult = <<"tem", "BAD_AMOUNT">> -> "invalid_amount"
      [] engineResult = <<"tem", "BAD_FEE">> -> "invalid_fee"
      [] engineResult = <<"tem", "DST_IS_SRC">> -> "destination_is_source"
      [] engineResult = <<"tec", "MPTOKEN_NOT_AUTHORIZED">> -> "mpt_not_authorized"
      [] engineResult = <<"tec", "MPT_NOT_ENABLED">> -> "mpt_not_enabled"
      [] engineResult = <<"tec", "MPT_LOCKED">> -> "mpt_locked"
      [] engineResult = <<"tec", "MPT_MAX_AMOUNT_EXCEEDED">> -> "mpt_max_amount_exceeded"
      [] OTHER -> "settlement_failed: " \o engineResult[1] \o engineResult[2]

\* SettleResponse; an absent field is "undefined"
Success(transaction, network, payer) ==
    [success |-> TRUE, errorReason |-> "undefined", transaction |-> transaction,
     network |-> network, payer |-> payer]
Failure(errorReason, transaction, network) ==
    [success |-> FALSE, errorReason |-> errorReason, transaction |-> transaction,
     network |-> network, payer |-> "undefined"]

\* A submitAndWait that takes the preliminary tesSUCCESS for the final result.
classifySubmit_TrustsPreliminary(reply) ==
    LET engineResult == reply.engine_result
        hash == IF reply.hash = undefined THEN "" ELSE reply.hash[1]
    IN  IF engineResult = <<"tes", "SUCCESS">>
        THEN Some(Success(hash, "", "undefined"))
        ELSE IF startsWith(engineResult, "tef") \/ startsWith(engineResult, "tem")
                \/ startsWith(engineResult, "tec")
        THEN Some(Failure(mapEngineResult(engineResult), hash, ""))
        ELSE IF reply.hash = undefined
        THEN Some(Failure("no_transaction_hash", "undefined", ""))
        ELSE undefined

\* A submitAndWait that polls after an applied-but-failed (tec) preliminary code.
classifySubmit_PollsTec(reply) ==
    LET engineResult == reply.engine_result
        hash == IF reply.hash = undefined THEN "" ELSE reply.hash[1]
    IN  IF startsWith(engineResult, "tef") \/ startsWith(engineResult, "tem")
        THEN Some(Failure(mapEngineResult(engineResult), hash, ""))
        ELSE IF reply.hash = undefined
        THEN Some(Failure("no_transaction_hash", "undefined", ""))
        ELSE undefined

\* submitAndWait, lines 377-408: what the submit reply decides.  <<>> when the
\* call goes on to poll, else <<SettleResponse>>.
\* transaction: txHash ?? ""
classifySubmit(reply) ==
    LET engineResult == reply.engine_result
        hash == IF reply.hash = undefined THEN "" ELSE reply.hash[1]
    IN  IF startsWith(engineResult, "tef") \/ startsWith(engineResult, "tem")
        THEN Some(Failure(mapEngineResult(engineResult), hash, ""))
        ELSE IF startsWith(engineResult, "tec")
        THEN Some(Failure(mapEngineResult(engineResult), hash, ""))
        ELSE IF reply.hash = undefined
        THEN Some(Failure("no_transaction_hash", "undefined", ""))
        ELSE undefined

\* A polling loop that gives up when a tx query raises.
classifyTx_ErrorFails(reply, hash) ==
    IF ~reply.ok THEN Some(Failure("settlement_failed", hash, ""))
    ELSE IF ~reply.validated THEN undefined
    ELSE IF reply.TransactionResult = Some(<<"tes", "SUCCESS">>)
         THEN Some(Success(hash, "", reply.Account))
         ELSE Some(Failure(
                IF reply.TransactionResult # undefined
                THEN mapEngineResult(reply.TransactionResult[1])
                ELSE "settlement_failed",
                hash, ""))

\* submitAndWait, lines 411-445: what one tx reply decides.  <<>> when the loop
\* goes on, else <<SettleResponse>>.
classifyTx(reply, hash) ==
    IF ~reply.ok THEN undefined
    ELSE IF ~reply.validated THEN undefined
    ELSE IF reply.TransactionResult = Some(<<"tes", "SUCCESS">>)
         THEN Some(Success(hash, "", reply.Account))
         ELSE Some(Failure(
                IF reply.TransactionResult # undefined
                THEN mapEngineResult(reply.TransactionResult[1])
                ELSE "settlement_failed",
                hash, ""))

\* submitAndWait, lines 450-455
timeoutResult(hash) == Failure("settlement_timeout", hash, "")

-----------------------------------------------------------------------------
(* Inputs: payments within MaxDefects edits of a well-formed payment *)

MaxDefects == 2

Phases == {"merchant", "fee"}
Modes == {"verify", "verifyClient", "settle"}
settleNetwork == "xrpl:1"

Tx(account, destination, amount, sequence, ticketSequence, lastLedgerSequence) ==
    [TransactionType |-> "Payment", validates |-> TRUE,
     Account |-> account, Destination |-> destination, Amount |-> amount,
     Fee |-> <<"1", "2">>, Sequence |-> sequence, TicketSequence |-> ticketSequence,
     LastLedgerSequence |-> lastLedgerSequence, Flags |-> undefined]

SignedBlob(id, tx) ==
    [id |-> id, decodable |-> TRUE, signature |-> "valid", tx |-> tx]

\* The Authorization a client derives from the transaction it signed.
AuthorizationOf(tx) ==
    [account |-> tx.Account, destination |-> tx.Destination, amount |-> tx.Amount,
     fee |-> tx.Fee,
     sequence |-> tx.Sequence,
     ticketSequence |-> tx.TicketSequence,
     lastLedgerSequence |-> tx.LastLedgerSequence]

WellFormed(amount, maxAmountRequired, asset, sequence, ticketSequence, lastLedgerSequence) ==
    LET tx == Tx("rPayer", "rMerchant", amount, sequence, ticketSequence, lastLedgerSequence)
    IN  [payload |-> [txBlob |-> SignedBlob("blob", tx),
                      authorization |-> AuthorizationOf(tx),
                      feeTxBlob |-> undefined,
                      feeAuthorization |-> undefined],
         requirements |-> [payTo |-> "rMerchant", maxAmountRequired |-> maxAmountRequired,
                           asset |-> asset, network |-> "xrpl:1"]]

BaseInputs ==
    { WellFormed(a[1], a[2], a[3], h[1], h[2], l) :
        a \in { <<DropsAmount(<<"1", "0">>), <<"1", "0">>, <<"XRP">>>>,
                <<IssuedCurrencyAmount("USD", <<"r", "Issuer">>, <<"2", ".", "5", "0">>),
                  <<"2", ".", "5">>, <<"r", "Issuer">>>>,
                <<MPTAmount("ID1", <<"1", "0">>), <<"1", "0">>, <<"mpt:", "ID1">>>> },
        h \in { <<7, undefined>>, <<0, Some(3)>> },
        l \in { undefined, Some(20) } }

\* A smaller amount of the same asset.
Lowered(amount) ==
    IF amount.typeof = "string" THEN [amount EXCEPT !.str = <<"9">>]
    ELSE IF isIssuedCurrencyAmount(amount) THEN [amount EXCEPT !.value = <<"2", ".", "4">>]
    ELSE [amount EXCEPT !.value = <<"9">>]

\* The amount object with a field of another variant added to it.
Hybrid(amount) ==
    IF isIssuedCurrencyAmount(amount)
    THEN [amount EXCEPT !.keys = @ \cup {"mpt_issuance_id"}, !.mpt_issuance_id = "ID1"]
    ELSE IF isMPTAmount(amount)
    THEN [amount EXCEPT !.keys = @ \cup {"currency"}, !.currency = "USD"]
    ELSE amount

FeeTx == Tx("rPayer", "rFacilitator", DropsAmount(<<"1", "0", "0">>), 8, undefined, undefined)
FeeAuthorizationOf(tx) ==
    [account |-> tx.Account, destination |-> tx.Destination, amount |-> tx.Amount.str,
     sequence |-> tx.Sequence, ticketSequence |-> tx.TicketSequence]

\* The inputs one edit away from an input.
Edits(in) ==
    LET p == in.payload
        r == in.requirements
        tx == p.txBlob.tx
        withFee == p.feeTxBlob # undefined
    IN  { [in EXCEPT !.payload.txBlob.decodable = FALSE],
          [in EXCEPT !.payload.txBlob.tx.validates = FALSE],
          \* another transaction type with the same fields, which validate() accepts
          [in EXCEPT !.payload.txBlob.tx.TransactionType = "EscrowCreate"],
          [in EXCEPT !.payload.txBlob.signature = "invalid"],
          [in EXCEPT !.payload.txBlob.signature = "throws"],
          [in EXCEPT !.payload.txBlob.tx.Flags = Some(PARTIAL_PAYMENT_FLAG)],
          [in EXCEPT !.payload.txBlob.tx.Flags = Some(PARTIAL_PAYMENT_FLAG + 1)],
          [in EXCEPT !.payload.txBlob.tx.Flags = Some(1)],
          [in EXCEPT !.payload.authorization.account = "rOther"],
          [in EXCEPT !.payload.authorization.amount = Lowered(@)],
          [in EXCEPT !.payload.authorization.amount = Hybrid(@)],
          [in EXCEPT !.payload.authorization.amount = Lowered(@),
                     !.payload.txBlob.tx.Amount = Lowered(@)],
          [in EXCEPT !.payload.authorization.sequence = @ + 1],
          [in EXCEPT !.payload.authorization.lastLedgerSequence =
                        IF @ = undefined THEN Some(20) ELSE undefined],
          [in EXCEPT !.requirements.payTo = "rOther"],
          [in EXCEPT !.requirements.maxAmountRequired = Append(@, "1")],
          [in EXCEPT !.requirements.asset =
                        IF Len(@) = 2 THEN <<@[1], "Other">> ELSE <<"r", "Issuer">>],
          [in EXCEPT !.requirements.asset =
                        IF @ = <<"XRP">> THEN <<"mpt:", "ID1">> ELSE <<"XRP">>],
          [in EXCEPT !.requirements.asset = <<"USD">>],
          [in EXCEPT !.payload.feeTxBlob = Some(SignedBlob("feeBlob", FeeTx)),
                     !.payload.feeAuthorization = Some(FeeAuthorizationOf(FeeTx))],
          IF withFee
          THEN [in EXCEPT !.payload.feeAuthorization =
                             Some([@[1] EXCEPT !.amount = <<"9", "9">>])]
          ELSE in }

RECURSIVE EditedInputs(_)
EditedInputs(n) ==
    IF n = 0 THEN BaseInputs
    ELSE LET prev == EditedInputs(n - 1)
         IN  prev \cup UNION { Edits(in) : in \in prev }

Inputs == EditedInputs(MaxDefects)

\* FEE_SCHEDULE.mpt, FACILITATOR_ADDRESS and MPT_ALLOWLIST: as the repository
\* ships them (no charge, no facilitator address, empty allowlist), and as a
\* deployment sets them.
Listed == { [network |-> "xrpl:1", issuanceId |-> "ID1"] }
Configs ==
    { [FEE_MPT |-> Some(<<"0">>), FACILITATOR_ADDRESS |-> undefined, MPT_ALLOWLIST |-> {}],
      [FEE_MPT |-> Some(<<"0">>), FACILITATOR_ADDRESS |-> undefined, MPT_ALLOWLIST |-> Listed],
      [FEE_MPT |-> Some(<<"1", "0", "0">>), FACILITATOR_ADDRESS |-> undefined,
       MPT_ALLOWLIST |-> Listed],
      [FEE_MPT |-> Some(<<"1", "0", "0">>), FACILITATOR_ADDRESS |-> Some("rFacilitator"),
       MPT_ALLOWLIST |-> Listed] }

-----------------------------------------------------------------------------
(* What the ledger may answer *)

Errored == [ok |-> FALSE]

AccountInfoReplies ==
    {Errored} \cup
    { [ok |-> TRUE, Balance |-> b, Sequence |-> q] :
        b \in {10000011, 10000012, 10000021, 10000022}, q \in {7, 8} }

AccountObjectsReplies ==
    {Errored} \cup { [ok |-> TRUE, tickets |-> t] : t \in {{}, {3}, {4}} }

LedgerIndexReplies ==
    {Errored} \cup { [ok |-> TRUE, ledgerIndex |-> h] : h \in {16, 17} }

AccountLinesReplies ==
    {Errored} \cup
    { [ok |-> TRUE, lines |-> ls] :
        ls \in { {},
                 {[currency |-> "EUR", limit |-> <<"5">>, freeze_peer |-> FALSE]},
                 {[currency |-> "USD", limit |-> <<"5">>, freeze_peer |-> FALSE]},
                 {[currency |-> "USD", limit |-> <<"0">>, freeze_peer |-> FALSE]},
                 {[currency |-> "USD", limit |-> <<"5">>, freeze_peer |-> TRUE]} } }

IssuanceReplies ==
    {Errored} \cup
    { [ok |-> TRUE, node |-> n] :
        n \in { undefined, Some([Flags |-> undefined]), Some([Flags |-> Some(2)]),
                Some([Flags |-> Some(tfMPTCanTransfer)]) } }

MPTokenReplies ==
    {Errored} \cup
    { [ok |-> TRUE, node |-> n] :
        n \in { undefined,
                Some([Flags |-> Some(lsfMPTLocked), MPTAmount |-> Some(<<"5", "0">>)]),
                Some([Flags |-> undefined, MPTAmount |-> Some(<<"5", "0">>)]),
                Some([Flags |-> Some(0), MPTAmount |-> Some(<<"9">>)]),
                Some([Flags |-> Some(0), MPTAmount |-> undefined]) } }

EngineResults ==
    { <<"tes", "SUCCESS">>, <<"ter", "QUEUED">>, <<"tec", "PATH_DRY">>,
      <<"tec", "CLAIM">>, <<"tef", "PAST_SEQ">>, <<"tem", "BAD_FEE">>,
      <<"tel", "LOCAL_ERROR">> }

\* client.submit: it raises, or answers a preliminary code with or without a hash
SubmitReplies(blob) ==
    { [ok |-> FALSE, message |-> "disconnected"] } \cup
    { [ok |-> TRUE, engine_result |-> e, hash |-> h] :
        e \in EngineResults, h \in { undefined, Some(blob.id) } }

\* tx: it raises (not found yet), or answers whether the transaction is validated
TxReplies(blob) ==
    { Errored, [ok |-> TRUE, validated |-> FALSE] } \cup
    { [ok |-> TRUE, validated |-> TRUE, TransactionResult |-> t, Account |-> a] :
        t \in { undefined, Some(<<"tes", "SUCCESS">>), Some(<<"tec", "PATH_DRY">>) },
        a \in { "undefined", blob.tx.Account } }

-----------------------------------------------------------------------------
(* The connection pool (src/src/xrpl/client.ts) *)

\* The networks connectClient is asked to connect, in order.
Networks == <<"xrpl:0", "xrpl:1", "xrpl:2">>
NetworkSet == { Networks[i] : i \in 1..Len(Networks) }

\* A Client object: whether its socket is connected, whether the 'disconnected'
\* handler of connectClient is registered on it, and whether a reconnect timer
\* set by that handler is pending.
NoClient == [created |-> FALSE, connected |-> FALSE, listening |-> FALSE, timer |-> FALSE]
NewClient == [created |-> TRUE, connected |-> TRUE, listening |-> TRUE, timer |-> FALSE]

\* Before connectClient: an empty Map.  connecting is the index of the network
\* connectClient connects next; shutdown is the position of disconnectClient.
EmptyPool ==
    [clients |-> {}, client |-> [n \in NetworkSet |-> NoClient], connecting |-> 1,
     shutdown |-> "idle", visiting |-> 1]

\* Once connectClient has resolved.
ConnectedPool ==
    [clients |-> NetworkSet, client |-> [n \in NetworkSet |-> NewClient],
     connecting |-> Len(Networks) + 1, shutdown |-> "idle", visiting |-> 1]

\* getClient, lines 9-13
getClient(network) ==
    IF network \in pool.clients /\ pool.client[network].connected
    THEN Some(network) ELSE undefined

-----------------------------------------------------------------------------
(* The calls *)

NoFeeResult == [called |-> FALSE, threw |-> FALSE, response |-> undefined]

Init ==
    /\ \E in \in Inputs : payload = in.payload /\ requirements = in.requirements
    /\ config \in Configs
    /\ mode \in Modes
    /\ pc = "start"
    /\ evaluated = <<>>
    /\ verifyResult = undefined
    /\ requests = <<>>
    /\ answered = [last |-> FALSE, any |-> FALSE]
    /\ submits = <<>>
    /\ phase = "merchant"
    /\ txHash = [ph \in Phases |-> "undefined"]
    /\ attempt = 0
    /\ queries = 0
    /\ finalReply = [ph \in Phases |-> undefined]
    /\ merchantResult = undefined
    /\ feeResult = NoFeeResult
    /\ result = undefined
    /\ thrown = FALSE
    /\ suspended = <<>>
    /\ ledger = undefined
    /\ pool = ConnectedPool

engineVars == <<submits, phase, txHash, attempt, queries, finalReply, merchantResult, feeResult>>
\* What no step of a call writes: its arguments, the static configuration, and
\* the local variables of another call.
callerVars == <<payload, requirements, config, mode, suspended, pool>>
inputVars == <<callerVars, ledger>>

auth == payload.authorization

\* A settle that leaves the fee verification out and goes on to submit.
settleAfterVerify_NoFeeCheck(vr, p, cfg) ==
    IF ~vr.isValid
    THEN Some(Failure(IF vr.invalidReason = "undefined" THEN "verification_failed"
                      ELSE vr.invalidReason, "undefined", settleNetwork))
    ELSE undefined

\* A settle that does not look at the outcome of the re-verification.
settleAfterVerify_NoRecheck(vr, p, cfg) ==
    IF isMPTAmount(p.authorization.amount)
       /\ verifyFeePayload(p, cfg.FEE_MPT, cfg) # null
    THEN Some(Failure(verifyFeePayload(p, cfg.FEE_MPT, cfg), "undefined", settleNetwork))
    ELSE undefined

\* settle, lines 468-487: what settle does with verify's answer.  <<>> when it
\* goes on to submit, else the <<SettleResponse>> it returns.
settleAfterVerify(vr, p, cfg) ==
    IF ~vr.isValid
    THEN Some(Failure(IF vr.invalidReason = "undefined" THEN "verification_failed"
                      ELSE vr.invalidReason, "undefined", settleNetwork))
    ELSE IF isMPTAmount(p.authorization.amount)
            /\ verifyFeePayload(p, cfg.FEE_MPT, cfg) # null
         THEN Some(Failure(verifyFeePayload(p, cfg.FEE_MPT, cfg), "undefined", settleNetwork))
         ELSE undefined

\* verify returns vr: to the caller of verify, or into settle.
VerifyReturns(vr) ==
    /\ verifyResult' = Some(vr)
    /\ IF mode # "settle"
       THEN result' = Some(vr) /\ pc' = "done"
       ELSE LET s == settleAfterVerify(vr, payload, config)
            IN  IF s = undefined
                THEN pc' = "submit" /\ UNCHANGED result
                ELSE result' = s /\ pc' = "done"

\* verify goes on to the step at next ("return": all steps passed).
Goto(next) ==
    IF next = "return" THEN VerifyReturns(Valid)
    ELSE pc' = next /\ UNCHANGED <<verifyResult, result>>

StepOutcome(res, next) ==
    IF res = null THEN Goto(next) ELSE VerifyReturns(Invalid(res))

\* A verify that leaves the trust-line check out.
AfterExpiry_NoTrustLine ==
    IF isMPTAmount(auth.amount) THEN "step13" ELSE "return"

\* Which network step follows step 10 and step 11 (verify.ts, lines 294-329).
AfterExpiry ==
    IF isIssuedCurrencyAmount(auth.amount) THEN "step11"
    ELSE IF isMPTAmount(auth.amount) THEN "step13" ELSE "return"
AfterTrustLine ==
    IF isMPTAmount(auth.amount) THEN "step13" ELSE "return"

\* verify issues a ledger request and gets reply (or the request raises)
Asked(command, reply) ==
    /\ requests' = Append(requests, command)
    /\ answered' = [last |-> reply.ok, any |-> answered.any \/ reply.ok]

\* verify, steps 1-8 and 12
VerifyLocal ==
    /\ pc = "start"
    /\ LET v == verifyOffline(payload, requirements, config)
       IN  /\ evaluated' = v.evaluated
           /\ CASE v.outcome = "throws" ->
                     thrown' = TRUE /\ pc' = "done" /\ UNCHANGED <<verifyResult, result>>
                [] v.outcome = "invalid" ->
                     VerifyReturns(Invalid(v.reason)) /\ UNCHANGED thrown
                [] OTHER ->
                     /\ IF mode = "verify" THEN Goto("return") ELSE Goto("step9")
                     /\ UNCHANGED thrown
    /\ UNCHANGED <<inputVars, requests, answered, engineVars>>

\* Step 9: account_info, answered by reply
CheckAccountBalanceGot(reply) ==
    /\ pc = "step9"
    /\ LET res == checkAccountBalance(reply, auth.amount, auth.fee, auth.sequence,
                                      auth.ticketSequence)
       IN  /\ Asked("account_info", reply)
           /\ IF res = "account_objects" THEN Goto("step9t")
              ELSE StepOutcome(res, "step10")
    /\ evaluated' = Append(evaluated, "balance")
    /\ UNCHANGED <<inputVars, engineVars, thrown>>

CheckAccountBalance == \E reply \in AccountInfoReplies : CheckAccountBalanceGot(reply)

\* Step 9: account_objects, for a ticket
CheckTicketGot(reply) ==
    /\ pc = "step9t"
    /\ Asked("account_objects", reply)
    /\ StepOutcome(checkTicket(reply, auth.ticketSequence), "step10")
    /\ UNCHANGED <<inputVars, engineVars, thrown, evaluated>>

CheckTicket == \E reply \in AccountObjectsReplies : CheckTicketGot(reply)

\* Step 10 when no expiry is claimed: passed without a request
CheckLedgerExpirySkipped ==
    /\ pc = "step10"
    /\ auth.lastLedgerSequence = undefined
    /\ Goto(AfterExpiry)
    /\ evaluated' = Append(evaluated, "expiry")
    /\ UNCHANGED <<inputVars, engineVars, thrown, requests, answered>>

\* Step 10: getLedgerIndex, answered by reply
CheckLedgerExpiryGot(reply) ==
    /\ pc = "step10"
    /\ auth.lastLedgerSequence # undefined
    /\ Asked("ledger_index", reply)
    /\ StepOutcome(checkLedgerExpiry(reply, auth.lastLedgerSequence), AfterExpiry)
    /\ evaluated' = Append(evaluated, "expiry")
    /\ UNCHANGED <<inputVars, engineVars, thrown>>

CheckLedgerExpiry ==
    \/ CheckLedgerExpirySkipped
    \/ \E reply \in LedgerIndexReplies : CheckLedgerExpiryGot(reply)

\* Step 11: account_lines
CheckTrustLineGot(reply) ==
    /\ pc = "step11"
    /\ Asked("account_lines", reply)
    /\ StepOutcome(checkTrustLine(reply, auth.amount), AfterTrustLine)
    /\ evaluated' = Append(evaluated, "trustLine")
    /\ UNCHANGED <<inputVars, engineVars, thrown>>

CheckTrustLine == \E reply \in AccountLinesReplies : CheckTrustLineGot(reply)

\* Step 13: ledger_entry mpt_issuance
CheckMptIssuanceGot(reply) ==
    /\ pc = "step13"
    /\ Asked("ledger_entry_issuance", reply)
    /\ StepOutcome(checkMptIssuance(reply), "step14")
    /\ evaluated' = Append(evaluated, "mptIssuance")
    /\ UNCHANGED <<inputVars, engineVars, thrown>>

CheckMptIssuance == \E reply \in IssuanceReplies : CheckMptIssuanceGot(reply)

\* Step 14: ledger_entry mptoken of the source account
CheckMptHolderGot(reply) ==
    /\ pc = "step14"
    /\ Asked("ledger_entry_holder", reply)
    /\ StepOutcome(checkMptHolder(reply, auth.amount), "step15")
    /\ evaluated' = Append(evaluated, "mptHolder")
    /\ UNCHANGED <<inputVars, engineVars, thrown>>

CheckMptHolder == \E reply \in MPTokenReplies : CheckMptHolderGot(reply)

\* Step 15: ledger_entry mptoken of the destination
CheckMptDestinationGot(reply) ==
    /\ pc = "step15"
    /\ Asked("ledger_entry_destination", reply)
    /\ StepOutcome(checkMptDestination(reply), "return")
    /\ evaluated' = Append(evaluated, "mptDestination")
    /\ UNCHANGED <<inputVars, engineVars, thrown>>

CheckMptDestination == \E reply \in MPTokenReplies : CheckMptDestinationGot(reply)

\* A settle that hands the primary blob to both submitAndWait calls.
blobOf_PrimaryOnly(ph) == payload.txBlob

\* The blob submitAndWait was handed in this phase.
blobOf(ph) == IF ph = "merchant" THEN payload.txBlob ELSE payload.feeTxBlob[1]

\* A settle that submits an attached fee blob whatever the primary outcome.
settleAfterMerchant_FeeAlways(res, p) ==
    LET m == [res EXCEPT !.network = settleNetwork]
    IN  IF p.feeTxBlob # undefined
        THEN [result |-> undefined, merchantResult |-> m, fee |-> TRUE]
        ELSE [result |-> Some(m), merchantResult |-> m, fee |-> FALSE]

\* A settle that hands back submitAndWait's record as it is (network "").
settleAfterMerchant_NoNetwork(res, p) ==
    IF p.feeTxBlob # undefined /\ res.success
    THEN [result |-> undefined, merchantResult |-> res, fee |-> TRUE]
    ELSE [result |-> Some(res), merchantResult |-> res, fee |-> FALSE]

\* settle, lines 491-499: the primary submitAndWait returned res.
\* [result: <<>> | <<SettleResponse>>, merchantResult, fee: whether settleWithFee
\* goes on to submit the fee blob]
settleAfterMerchant(res, p) ==
    LET m == [res EXCEPT !.network = settleNetwork]
    IN  IF p.feeTxBlob # undefined /\ m.success
        THEN [result |-> undefined, merchantResult |-> m, fee |-> TRUE]
        ELSE [result |-> Some(m), merchantResult |-> m, fee |-> FALSE]

\* A settleWithFee that hands a failed fee settlement to the caller.
settleWithFee_PropagatesFee(merchant, fee) ==
    IF fee.threw THEN Failure("settlement_error: fee", "undefined", settleNetwork)
    ELSE IF ~fee.response[1].success THEN fee.response[1]
    ELSE merchant

\* settleWithFee, lines 118-132: what it returns once the fee submitAndWait
\* returned or raised.
settleWithFee(merchant, fee) == merchant

\* settle, lines 500-506
settleCatch(message) ==
    Failure("settlement_error: " \o message, "undefined", settleNetwork)

\* submitAndWait returns res to its caller.
SubmitAndWaitReturns(res) ==
    IF phase = "merchant"
    THEN LET next == settleAfterMerchant(res, payload)
         IN  /\ merchantResult' = Some(next.merchantResult)
             /\ result' = next.result
             /\ IF next.fee
                THEN phase' = "fee" /\ pc' = "submit"
                ELSE pc' = "done" /\ UNCHANGED phase
             /\ UNCHANGED feeResult
    ELSE /\ feeResult' = [called |-> TRUE, threw |-> FALSE, response |-> Some(res)]
         /\ result' = Some(settleWithFee(merchantResult[1], feeResult'))
         /\ pc' = "done"
         /\ UNCHANGED <<phase, merchantResult>>

\* client.submit raised inside submitAndWait.
SubmitAndWaitThrows(message) ==
    IF phase = "merchant"
    THEN /\ result' = Some(settleCatch(message))
         /\ pc' = "done"
         /\ UNCHANGED <<phase, merchantResult, feeResult>>
    ELSE /\ feeResult' = [called |-> TRUE, threw |-> TRUE, response |-> undefined]
         /\ result' = Some(settleWithFee(merchantResult[1], feeResult'))
         /\ pc' = "done"
         /\ UNCHANGED <<phase, merchantResult>>

\* A submit that is re-issued when the blob was only provisionally accepted.
EnterPolling_Resubmits(hash) ==
    /\ pc' = "submit"
    /\ UNCHANGED <<txHash, phase, merchantResult, feeResult, result>>

\* submitAndWait, lines 401-410: tesSUCCESS or ter*, with a hash: poll for validation
EnterPolling(hash) ==
    /\ txHash' = [txHash EXCEPT ![phase] = hash]
    /\ pc' = "poll"
    /\ UNCHANGED <<phase, merchantResult, feeResult, result>>

\* submitAndWait, lines 377-408: submit the blob and look at the preliminary
\* result, client.submit answering reply
SubmitGot(reply) ==
    /\ pc = "submit"
    /\ submits' = Append(submits, [role |-> phase, blob |-> blobOf(phase)])
    /\ attempt' = 0
    /\ queries' = 0
    /\ IF ~reply.ok
       THEN SubmitAndWaitThrows(reply.message) /\ UNCHANGED txHash
       ELSE LET c == classifySubmit(reply)
            IN  IF c # undefined
                THEN SubmitAndWaitReturns(c[1]) /\ UNCHANGED txHash
                ELSE EnterPolling(reply.hash[1])
    /\ UNCHANGED <<callerVars, evaluated, verifyResult, requests, answered, finalReply, thrown>>

Submit == \E reply \in SubmitReplies(blobOf(phase)) : SubmitGot(reply) /\ UNCHANGED ledger

\* A polling loop that runs one attempt more than maxAttempts.
PollGot_ExtraAttempt(reply) ==
    /\ pc = "poll"
    /\ attempt <= MAX_ATTEMPTS
    /\ queries' = queries + 1
    /\ LET c == classifyTx(reply, txHash[phase])
       IN  IF c # undefined
           THEN /\ finalReply' = [finalReply EXCEPT ![phase] = Some(reply)]
                /\ SubmitAndWaitReturns(c[1])
                /\ UNCHANGED attempt
           ELSE /\ attempt' = attempt + 1
                /\ UNCHANGED finalReply
                /\ IF attempt' <= MAX_ATTEMPTS
                   THEN UNCHANGED <<pc, phase, merchantResult, feeResult, result>>
                   ELSE SubmitAndWaitReturns(timeoutResult(txHash[phase]))
    /\ UNCHANGED <<callerVars, evaluated, verifyResult, requests, answered, submits, txHash, thrown>>

\* submitAndWait, lines 410-455: one attempt of the polling loop, the tx query
\* answering reply, and the timeout once the last attempt is spent
PollGot(reply) ==
    /\ pc = "poll"
    /\ attempt < MAX_ATTEMPTS
    /\ queries' = queries + 1
    /\ LET c == classifyTx(reply, txHash[phase])
       IN  IF c # undefined
           THEN /\ finalReply' = [finalReply EXCEPT ![phase] = Some(reply)]
                /\ SubmitAndWaitReturns(c[1])
                /\ UNCHANGED attempt
           ELSE /\ attempt' = attempt + 1
                /\ UNCHANGED finalReply
                /\ IF attempt' < MAX_ATTEMPTS
                   THEN UNCHANGED <<pc, phase, merchantResult, feeResult, result>>
                   ELSE SubmitAndWaitReturns(timeoutResult(txHash[phase]))
    /\ UNCHANGED <<callerVars, evaluated, verifyResult, requests, answered, submits, txHash, thrown>>

Poll == \E reply \in TxReplies(blobOf(phase)) : PollGot(reply) /\ UNCHANGED ledger

Next ==
    \/ VerifyLocal
    \/ CheckAccountBalance
    \/ CheckTicket
    \/ CheckLedgerExpiry
    \/ CheckTrustLine
    \/ CheckMptIssuance
    \/ CheckMptHolder
    \/ CheckMptDestination
    \/ Submit
    \/ Poll

Spec == Init /\ [][Next]_vars

-----------------------------------------------------------------------------
(* crossCheckAuthorization called on its own, over every combination of     *)
(* claimed fields against a few signed transactions                         *)

CrossCheckAmounts ==
    { DropsAmount(<<"1", "0">>), DropsAmount(<<"9">>),
      IssuedCurrencyAmount("USD", <<"r", "Issuer">>, <<"2", ".", "5", "0">>),
      IssuedCurrencyAmount("USD", <<"r", "Issuer">>, <<"2", ".", "5">>),
      IssuedCurrencyAmount("USD", <<"r", "Issuer">>, <<"2", ".", "4">>),
      IssuedCurrencyAmount("USD", <<"r", "Issuer">>, <<"a", "b", "c">>),
      IssuedCurrencyAmount("USD", <<"r", "Other">>, <<"2", ".", "5">>),
      IssuedCurrencyAmount("EUR", <<"r", "Issuer">>, <<"2", ".", "5">>),
      MPTAmount("ID1", <<"1", "0">>), MPTAmount("ID1", <<"1", "0", ".", "0">>),
      MPTAmount("ID1", <<"9">>), MPTAmount("ID2", <<"1", "0">>) }

CrossCheckAuthorizations ==
    [account : {"rPayer", "rOther"},
     destination : {"rMerchant", "rOther"},
     amount : CrossCheckAmounts,
     fee : {<<"1", "2">>, <<"1", "3">>},
     sequence : {0, 7, 8},
     ticketSequence : {undefined, Some(3), Some(4)},
     lastLedgerSequence : {undefined, Some(20), Some(21)}]

CrossCheckTxs ==
    { Tx("rPayer", "rMerchant", a, h[1], h[2], l) :
        a \in { DropsAmount(<<"1", "0">>),
                IssuedCurrencyAmount("USD", <<"r", "Issuer">>, <<"2", ".", "5">>),
                IssuedCurrencyAmount("USD", <<"r", "Issuer">>, <<"a", "b", "c">>),
                MPTAmount("ID1", <<"1", "0">>) },
        h \in { <<7, undefined>>, <<0, Some(3)>> },
        l \in { undefined, Some(20) } }

InitCrossCheck ==
    /\ \E tx \in CrossCheckTxs, a \in CrossCheckAuthorizations :
         payload = [txBlob |-> SignedBlob("blob", tx), authorization |-> a,
                    feeTxBlob |-> undefined, feeAuthorization |-> undefined]
    /\ requirements = [payTo |-> "rMerchant", maxAmountRequired |-> <<"1">>,
                       asset |-> <<"XRP">>, network |-> "xrpl:1"]
    /\ config \in { c \in Configs : c.MPT_ALLOWLIST = {} /\ c.FEE_MPT = Some(<<"0">>) }
    /\ mode = "crossCheck"
    /\ pc = "start"
    /\ evaluated = <<>>
    /\ verifyResult = undefined
    /\ requests = <<>>
    /\ answered = [last |-> FALSE, any |-> FALSE]
    /\ submits = <<>>
    /\ phase = "merchant"
    /\ txHash = [ph \in Phases |-> "undefined"]
    /\ attempt = 0
    /\ queries = 0
    /\ finalReply = [ph \in Phases |-> undefined]
    /\ merchantResult = undefined
    /\ feeResult = NoFeeResult
    /\ result = undefined
    /\ thrown = FALSE
    /\ suspended = <<>>
    /\ ledger = undefined
    /\ pool = ConnectedPool

\* crossCheckAuthorization(decode(txBlob), payload); result holds what it returned
CrossCheck ==
    /\ pc = "start"
    /\ mode = "crossCheck"
    /\ result' = Some(crossCheckAuthorization(payload.txBlob.tx, payload))
    /\ evaluated' = <<"crossCheck">>
    /\ pc' = "done"
    /\ UNCHANGED <<inputVars, verifyResult, requests, answered, engineVars, thrown>>

SpecCrossCheck == InitCrossCheck /\ [][CrossCheck]_vars

-----------------------------------------------------------------------------
(* checkAmount called on its own, over amount and requirement strings that     *)
(* the shape check lets through (any string)                                   *)

\* What every stand-alone call of one function starts from.
Fresh ==
    /\ pc = "start"
    /\ evaluated = <<>>
    /\ verifyResult = undefined
    /\ requests = <<>>
    /\ answered = [last |-> FALSE, any |-> FALSE]
    /\ submits = <<>>
    /\ phase = "merchant"
    /\ txHash = [ph \in Phases |-> "undefined"]
    /\ attempt = 0
    /\ queries = 0
    /\ finalReply = [ph \in Phases |-> undefined]
    /\ merchantResult = undefined
    /\ feeResult = NoFeeResult
    /\ result = undefined
    /\ thrown = FALSE
    /\ suspended = <<>>
    /\ ledger = undefined
    /\ pool = ConnectedPool

AmountStrings ==
    { <<"9", "9", "9", "9", "9", "9">>, <<"1", "0", "0", "0", "0", "0", "0">>,
      <<"1", "0", "0", "0", "0", "0", "1">>, <<"0">>, <<>>, <<"-", "5">>, <<"+", "5">>,
      <<"1", "2">>, <<" ", "1", "2">>, <<"1", "6">>, <<"0", "x", "1", "0">>,
      <<"1", ".", "5">>, <<"a", "b", "c">>, <<"1", "e", "2">>, <<"1", "0", "0">>,
      <<"2", "5", ".", "5", "0">>, <<"2", "5", ".", "5">>, <<"2", "5", ".", "4">>,
      <<"2", "5", ".", "5", "a", "b", "c">>,
      <<"I", "n", "f", "i", "n", "i", "t", "y">> }

CheckAmountAmounts ==
    { DropsAmount(s) : s \in AmountStrings }
    \cup { IssuedCurrencyAmount("USD", <<"r", "Issuer">>, s) : s \in AmountStrings }
    \cup { MPTAmount("ID1", s) : s \in AmountStrings }

InitCheckAmount ==
    /\ \E a \in CheckAmountAmounts, r \in AmountStrings :
         LET tx == Tx("rPayer", "rMerchant", a, 7, undefined, undefined)
         IN  /\ payload = [txBlob |-> SignedBlob("blob", tx),
                           authorization |-> AuthorizationOf(tx),
                           feeTxBlob |-> undefined, feeAuthorization |-> undefined]
             /\ requirements = [payTo |-> "rMerchant", maxAmountRequired |-> r,
                                asset |-> <<"XRP">>, network |-> "xrpl:1"]
    /\ config \in { c \in Configs : c.MPT_ALLOWLIST = {} /\ c.FEE_MPT = Some(<<"0">>) }
    /\ mode = "checkAmount"
    /\ Fresh

\* checkAmount(payload, requirements); result holds what it returned
CheckAmount ==
    /\ pc = "start"
    /\ mode = "checkAmount"
    /\ result' = Some(checkAmount(payload, requirements))
    /\ evaluated' = <<"amount">>
    /\ pc' = "done"
    /\ UNCHANGED <<inputVars, verifyResult, requests, answered, engineVars, thrown>>

SpecCheckAmount == InitCheckAmount /\ [][CheckAmount]_vars

-----------------------------------------------------------------------------
(* verifyFeePayload called on its own, over fee fields absent, partly present   *)
(* and present with any content, each advertised fee and each setting of the   *)
(* facilitator account                                                          *)

FeeBlobs ==
    { [id |-> "feeBlob", decodable |-> d, signature |-> g,
       tx |-> Tx(a, dst, amt, 8, undefined, undefined)] :
        d \in BOOLEAN, g \in {"valid", "invalid", "throws"},
        a \in {"rPayer", "rOther"}, dst \in {"rFacilitator", "rOther"},
        amt \in { DropsAmount(<<"1", "0", "0">>), DropsAmount(<<"9", "9">>),
                  IssuedCurrencyAmount("USD", <<"r", "Issuer">>, <<"1", "0", "0">>) } }

FeeAuthorizations ==
    [account : {"rPayer", "rOther"}, destination : {"rFacilitator", "rOther"},
     amount : { <<"1", "0", "0">>, <<"9", "9">> }, sequence : {8},
     ticketSequence : {undefined}]

FeeConfigs ==
    [FEE_MPT : { undefined, Some(<<"0">>), Some(<<"1", "0", "0">>) },
     FACILITATOR_ADDRESS : { undefined, Some(""), Some("rFacilitator") },
     MPT_ALLOWLIST : {Listed}]

InitVerifyFee ==
    /\ \E b \in {undefined} \cup { Some(x) : x \in FeeBlobs },
          a \in {undefined} \cup { Some(x) : x \in FeeAuthorizations } :
         LET tx == Tx("rPayer", "rMerchant", MPTAmount("ID1", <<"1", "0">>), 7,
                      undefined, undefined)
         IN  payload = [txBlob |-> SignedBlob("blob", tx),
                        authorization |-> AuthorizationOf(tx),
                        feeTxBlob |-> b, feeAuthorization |-> a]
    /\ requirements = [payTo |-> "rMerchant", maxAmountRequired |-> <<"1", "0">>,
                       asset |-> <<"mpt:", "ID1">>, network |-> "xrpl:1"]
    /\ config \in FeeConfigs
    /\ mode = "verifyFee"
    /\ Fresh

\* verifyFeePayload(payload, expectedFeeAmount); result holds what it returned
VerifyFee ==
    /\ pc = "start"
    /\ mode = "verifyFee"
    /\ result' = Some(verifyFeePayload(payload, config.FEE_MPT, config))
    /\ evaluated' = <<"fee">>
    /\ pc' = "done"
    /\ UNCHANGED <<inputVars, verifyResult, requests, answered, engineVars, thrown>>

SpecVerifyFee == InitVerifyFee /\ [][VerifyFee]_vars

-----------------------------------------------------------------------------
(* settle called on well-formed payments, with and without a fee blob.  Once *)
(* submitAndWait runs, every pending client.submit and tx request is         *)
(* eventually answered (or raises) and every poll timer eventually fires.    *)

SettleInputs ==
    BaseInputs \cup
    { [in EXCEPT !.payload.feeTxBlob = Some(SignedBlob("feeBlob", FeeTx)),
                 !.payload.feeAuthorization = Some(FeeAuthorizationOf(FeeTx))] :
        in \in BaseInputs }

InitSettle ==
    /\ \E in \in SettleInputs : payload = in.payload /\ requirements = in.requirements
    /\ config \in Configs
    /\ mode = "settle"
    /\ Fresh

SpecSettle == InitSettle /\ [][Next]_vars /\ WF_vars(Submit \/ Poll)

-----------------------------------------------------------------------------
(* Two calls in one process.  JavaScript runs one call at a time and lets    *)
(* another one run while the first waits at an await, or after it returned.  *)
(* The variables above are the arguments and locals of the call that runs;   *)
(* suspended keeps those of the call that waits.  Only config is shared.     *)

Locals ==
    [payload |-> payload, requirements |-> requirements, mode |-> mode, pc |-> pc,
     evaluated |-> evaluated, verifyResult |-> verifyResult, requests |-> requests,
     answered |-> answered, submits |-> submits, phase |-> phase, txHash |-> txHash,
     attempt |-> attempt, queries |-> queries, finalReply |-> finalReply,
     merchantResult |-> merchantResult, feeResult |-> feeResult, result |-> result,
     thrown |-> thrown]

\* The locals of a call that has not started.
FreshLocals(in, m) ==
    [payload |-> in.payload, requirements |-> in.requirements, mode |-> m, pc |-> "start",
     evaluated |-> <<>>, verifyResult |-> undefined, requests |-> <<>>,
     answered |-> [last |-> FALSE, any |-> FALSE], submits |-> <<>>, phase |-> "merchant",
     txHash |-> [ph \in Phases |-> "undefined"], attempt |-> 0, queries |-> 0,
     finalReply |-> [ph \in Phases |-> undefined], merchantResult |-> undefined,
     feeResult |-> NoFeeResult, result |-> undefined, thrown |-> FALSE]

\* The running call's variables become those of l.
Resume(l) ==
    /\ payload' = l.payload
    /\ requirements' = l.requirements
    /\ mode' = l.mode
    /\ pc' = l.pc
    /\ evaluated' = l.evaluated
    /\ verifyResult' = l.verifyResult
    /\ requests' = l.requests
    /\ answered' = l.answered
    /\ submits' = l.submits
    /\ phase' = l.phase
    /\ txHash' = l.txHash
    /\ attempt' = l.attempt
    /\ queries' = l.queries
    /\ finalReply' = l.finalReply
    /\ merchantResult' = l.merchantResult
    /\ feeResult' = l.feeResult
    /\ result' = l.result
    /\ thrown' = l.thrown

\* A submitAndWait whose txHash is one variable of the module, written by
\* whichever call submitted last.
Switch_SharedTxHash ==
    /\ suspended # <<>>
    /\ suspended' = <<Locals>>
    /\ Resume([suspended[1] EXCEPT !.txHash = txHash])
    /\ UNCHANGED <<config, ledger, pool>>

\* The event loop leaves the running call at its await (or after its return)
\* and resumes the other call.
Switch ==
    /\ suspended # <<>>
    /\ suspended' = <<Locals>>
    /\ Resume(suspended[1])
    /\ UNCHANGED <<config, ledger, pool>>

\* Two payments of different payers to the same merchant.
SecondPayment(in) ==
    [in EXCEPT !.payload.txBlob.id = "blob2",
               !.payload.txBlob.tx.Account = "rPayer2",
               !.payload.authorization.account = "rPayer2"]

ConcurrentCalls ==
    LET native == <<DropsAmount(<<"1", "0">>), <<"1", "0">>, <<"XRP">>>>
        issued == <<IssuedCurrencyAmount("USD", <<"r", "Issuer">>, <<"2", ".", "5", "0">>),
                    <<"2", ".", "5">>, <<"r", "Issuer">>>>
        mpt == <<MPTAmount("ID1", <<"1", "0">>), <<"1", "0">>, <<"mpt:", "ID1">>>>
        withFee(in) ==
            [in EXCEPT !.payload.feeTxBlob = Some(SignedBlob("feeBlob", FeeTx)),
                       !.payload.feeAuthorization = Some(FeeAuthorizationOf(FeeTx))]
    IN  { <<FreshLocals(withFee(WellFormed(native[1], native[2], native[3], 0, Some(3),
                                           Some(20))), "settle"),
            FreshLocals(SecondPayment(WellFormed(issued[1], issued[2], issued[3], 7,
                                                 undefined, undefined)), "verifyClient")>>,
          <<FreshLocals(WellFormed(mpt[1], mpt[2], mpt[3], 7, undefined, undefined),
                        "settle"),
            FreshLocals(SecondPayment(WellFormed(native[1], native[2], native[3], 7,
                                                 undefined, undefined)), "settle")>> }

InitConcurrent ==
    /\ config = [FEE_MPT |-> Some(<<"0">>), FACILITATOR_ADDRESS |-> undefined,
                 MPT_ALLOWLIST |-> Listed]
    /\ \E calls \in ConcurrentCalls :
         /\ payload = calls[1].payload
         /\ requirements = calls[1].requirements
         /\ mode = calls[1].mode
         /\ suspended = <<calls[2]>>
    /\ pc = "start"
    /\ evaluated = <<>>
    /\ verifyResult = undefined
    /\ requests = <<>>
    /\ answered = [last |-> FALSE, any |-> FALSE]
    /\ submits = <<>>
    /\ phase = "merchant"
    /\ txHash = [ph \in Phases |-> "undefined"]
    /\ attempt = 0
    /\ queries = 0
    /\ finalReply = [ph \in Phases |-> undefined]
    /\ merchantResult = undefined
    /\ feeResult = NoFeeResult
    /\ result = undefined
    /\ thrown = FALSE
    /\ ledger = undefined
    /\ pool = ConnectedPool

SpecConcurrent == InitConcurrent /\ [][Next \/ Switch]_vars

-----------------------------------------------------------------------------
(* Two settle calls that carry the same blob, against a ledger that applies   *)
(* a blob at most once.  The ledger holds the blob as "new" (never seen, or   *)
(* refused), "held" (kept for a retry after a ter* code), "applied" (in a     *)
(* candidate state) or "validated", with the final result code once applied.  *)

NewLedger == [status |-> "new", result |-> undefined]

\* client.submit: a blob that is applied or validated is answered with a tef*
\* code (or the request raises); otherwise the ledger may answer anything.
SubmitRepliesAt(blob) ==
    IF ledger.status \in {"applied", "validated"}
    THEN { r \in SubmitReplies(blob) : r.ok => r.engine_result[1] = "tef" }
    ELSE SubmitReplies(blob)

\* What the ledger holds after it answered reply to a submission.
LedgerAfterSubmit(reply) ==
    IF ~reply.ok \/ ledger.status \in {"applied", "validated"} THEN ledger
    ELSE IF reply.engine_result[1] \in {"tes", "tec"}
         THEN [status |-> "applied", result |-> Some(reply.engine_result)]
    ELSE IF reply.engine_result[1] = "ter" THEN [ledger EXCEPT !.status = "held"]
    ELSE ledger

\* tx: validated only once the ledger validated the blob, with its final result.
TxRepliesAt(blob) ==
    IF ledger.status = "validated"
    THEN { r \in TxReplies(blob) :
             r.ok => r.validated /\ r.TransactionResult = Some(ledger.result[1]) }
    ELSE { r \in TxReplies(blob) : r.ok => ~r.validated }

SubmitSame ==
    \E reply \in SubmitRepliesAt(blobOf(phase)) :
        SubmitGot(reply) /\ ledger' = LedgerAfterSubmit(reply)

PollSame ==
    \E reply \in TxRepliesAt(blobOf(phase)) : PollGot(reply) /\ UNCHANGED ledger

\* The ledger goes on by itself: a held blob is applied on a retry, an applied
\* blob is validated with the result it was applied with.
LedgerCloses ==
    /\ \/ /\ ledger.status = "held"
          /\ ledger' = [status |-> "applied", result |-> Some(<<"tes", "SUCCESS">>)]
       \/ /\ ledger.status = "applied"
          /\ ledger' = [ledger EXCEPT !.status = "validated",
                                     !.result = IF @[1][1] = "tes" THEN @
                                                ELSE Some(<<"tec", "PATH_DRY">>)]
    /\ UNCHANGED <<callerVars, pc, evaluated, verifyResult, requests, answered, engineVars,
                   result, thrown>>

SameBlobInputs ==
    { WellFormed(IssuedCurrencyAmount("USD", <<"r", "Issuer">>, <<"2", ".", "5", "0">>),
                 <<"2", ".", "5">>, <<"r", "Issuer">>, 0, Some(3), Some(20)),
      WellFormed(MPTAmount("ID1", <<"1", "0">>), <<"1", "0">>, <<"mpt:", "ID1">>,
                 7, undefined, undefined) }

InitSameBlob ==
    /\ config = [FEE_MPT |-> Some(<<"0">>), FACILITATOR_ADDRESS |-> undefined,
                 MPT_ALLOWLIST |-> Listed]
    /\ \E in \in SameBlobInputs :
         /\ payload = in.payload
         /\ requirements = in.requirements
         /\ suspended = <<FreshLocals(in, "settle")>>
    /\ mode = "settle"
    /\ pc = "start"
    /\ evaluated = <<>>
    /\ verifyResult = undefined
    /\ requests = <<>>
    /\ answered = [last |-> FALSE, any |-> FALSE]
    /\ submits = <<>>
    /\ phase = "merchant"
    /\ txHash = [ph \in Phases |-> "undefined"]
    /\ attempt = 0
    /\ queries = 0
    /\ finalReply = [ph \in Phases |-> undefined]
    /\ merchantResult = undefined
    /\ feeResult = NoFeeResult
    /\ result = undefined
    /\ thrown = FALSE
    /\ ledger = NewLedger
    /\ pool = ConnectedPool

NextSameBlob ==
    \/ VerifyLocal
    \/ CheckAccountBalance
    \/ CheckTicket
    \/ CheckLedgerExpiry
    \/ CheckTrustLine
    \/ CheckMptIssuance
    \/ CheckMptHolder
    \/ CheckMptDestination
    \/ SubmitSame
    \/ PollSame
    \/ LedgerCloses
    \/ Switch

SpecSameBlob == InitSameBlob /\ [][NextSameBlob]_vars

-----------------------------------------------------------------------------
(* connectClient, the 'disconnected' handler with its reconnect timer, and    *)
(* disconnectClient (src/src/xrpl/client.ts), over the networks of Networks   *)

callVars ==
    <<payload, requirements, config, mode, suspended, ledger, pc, evaluated, verifyResult,
      requests, answered, engineVars, result, thrown>>

\* connectClient, lines 19-35: one turn of the loop.  The handler is registered
\* before client.connect(); when connect rejects, connectClient rejects and the
\* remaining networks are not connected.
ConnectClient ==
    /\ pool.connecting <= Len(Networks)
    /\ LET n == Networks[pool.connecting]
       IN  \/ pool' = [pool EXCEPT !.client[n] = NewClient,
                                    !.clients = @ \cup {n},
                                    !.connecting = @ + 1]
           \/ pool' = [pool EXCEPT !.client[n] = [NewClient EXCEPT !.connected = FALSE],
                                    !.connecting = Len(Networks) + 1]
    /\ UNCHANGED callVars

\* A connection drops: the client emits 'disconnected'; the handler of lines
\* 23-30, if still registered, sets the 2-second reconnect timer.
Disconnected(n) ==
    /\ pool.client[n].connected
    /\ pool' = [pool EXCEPT !.client[n].connected = FALSE,
                            !.client[n].timer = pool.client[n].listening]
    /\ UNCHANGED callVars

\* The reconnect timer fires (lines 25-29): client.connect() resolves or rejects.
TimerFires(n) ==
    /\ pool.client[n].timer
    /\ \E connected \in BOOLEAN :
         pool' = [pool EXCEPT !.client[n].timer = FALSE,
                              !.client[n].connected = connected]
    /\ UNCHANGED callVars

\* disconnectClient is called, once connectClient has settled.
DisconnectBegin ==
    /\ pool.shutdown = "idle"
    /\ pool.connecting > Len(Networks)
    /\ pool' = [pool EXCEPT !.shutdown = "loop", !.visiting = 1]
    /\ UNCHANGED callVars

\* disconnectClient, lines 40-44: the next entry of the Map.  A connected client
\* loses its handler and is disconnected; any other client is passed over.
DisconnectVisit ==
    /\ pool.shutdown = "loop"
    /\ pool.visiting <= Len(Networks)
    /\ LET n == Networks[pool.visiting]
       IN  IF n \in pool.clients /\ pool.client[n].connected
           THEN pool' = [pool EXCEPT !.client[n].listening = FALSE, !.shutdown = "await"]
           ELSE pool' = [pool EXCEPT !.visiting = @ + 1]
    /\ UNCHANGED callVars

\* disconnectClient, line 44: await client.disconnect() resolves.
DisconnectAwait ==
    /\ pool.shutdown = "await"
    /\ pool' = [pool EXCEPT !.client[Networks[pool.visiting]].connected = FALSE,
                            !.visiting = @ + 1,
                            !.shutdown = "loop"]
    /\ UNCHANGED callVars

\* disconnectClient, line 48: clients.clear(), and the call completes.
DisconnectClear ==
    /\ pool.shutdown = "loop"
    /\ pool.visiting > Len(Networks)
    /\ pool' = [pool EXCEPT !.clients = {}, !.shutdown = "done"]
    /\ UNCHANGED callVars

InitClient ==
    /\ \E in \in { WellFormed(DropsAmount(<<"1", "0">>), <<"1", "0">>, <<"XRP">>,
                               7, undefined, undefined) } :
         payload = in.payload /\ requirements = in.requirements
    /\ config = [FEE_MPT |-> Some(<<"0">>), FACILITATOR_ADDRESS |-> undefined,
                 MPT_ALLOWLIST |-> {}]
    /\ mode = "client"
    /\ pc = "start"
    /\ evaluated = <<>>
    /\ verifyResult = undefined
    /\ requests = <<>>
    /\ answered = [last |-> FALSE, any |-> FALSE]
    /\ submits = <<>>
    /\ phase = "merchant"
    /\ txHash = [ph \in Phases |-> "undefined"]
    /\ attempt = 0
    /\ queries = 0
    /\ finalReply = [ph \in Phases |-> undefined]
    /\ merchantResult = undefined
    /\ feeResult = NoFeeResult
    /\ result = undefined
    /\ thrown = FALSE
    /\ suspended = <<>>
    /\ ledger = undefined
    /\ pool = EmptyPool

NextClient ==
    \/ ConnectClient
    \/ \E n \in NetworkSet : Disconnected(n)
    \/ \E n \in NetworkSet : TimerFires(n)
    \/ DisconnectBegin
    \/ DisconnectVisit
    \/ DisconnectAwait
    \/ DisconnectClear

SpecClient == InitClient /\ [][NextClient]_vars

-----------------------------------------------------------------------------
(* Properties *)

VerifyInvalid == verifyResult # undefined /\ ~verifyResult[1].isValid
SubmitCount(role) == Cardinality({ i \in 1..Len(submits) : submits[i].role = role })
MerchantSucceeded == merchantResult # undefined /\ merchantResult[1].success
MerchantFailed == merchantResult # undefined /\ ~merchantResult[1].success

\* C1: whenever the re-verification inside settle returns Invalid, settle has
\* returned Failure carrying exactly that reason, and client.submit was called
\* zero times (neither the primary blob nor the fee blob).
C1_InvalidReverifyNeverSubmits ==
    (mode = "settle" /\ VerifyInvalid) =>
        /\ pc = "done"
        /\ result = Some(Failure(verifyResult[1].invalidReason, "undefined", settleNetwork))
        /\ submits = <<>>

\* settle rejected because the replay handle no longer matches the account
C1_Witness ==
    /\ mode = "settle"
    /\ pc = "done"
    /\ VerifyInvalid
    /\ verifyResult[1].invalidReason = "invalid_sequence"
    /\ answered.last

ValidatedSuccess(reply) ==
    /\ reply # undefined
    /\ reply[1].ok
    /\ reply[1].validated
    /\ reply[1].TransactionResult = Some(<<"tes", "SUCCESS">>)

\* C2: submitAndWait (and so settle) returns Success only if a tx query for the
\* submitted transaction id answered validated with final result tesSUCCESS; a
\* validated transaction with another or no final result yields Failure with the
\* mapped reason.
C2_SuccessOnlyWhenValidated ==
    /\ MerchantSucceeded => ValidatedSuccess(finalReply["merchant"])
    /\ (mode = "settle" /\ result # undefined /\ result[1].success) =>
            /\ ValidatedSuccess(finalReply["merchant"])
            /\ result[1].transaction = txHash["merchant"]
    /\ (feeResult.response # undefined /\ feeResult.response[1].success) =>
            ValidatedSuccess(finalReply["fee"])
    /\ (finalReply["merchant"] # undefined /\ ~ValidatedSuccess(finalReply["merchant"])) =>
            /\ MerchantFailed
            /\ merchantResult[1].errorReason =
                 IF finalReply["merchant"][1].TransactionResult = undefined
                 THEN "settlement_failed"
                 ELSE mapEngineResult(finalReply["merchant"][1].TransactionResult[1])

\* settle returned Success after at least one inconclusive tx query
C2_Witness ==
    /\ mode = "settle"
    /\ pc = "done"
    /\ result # undefined
    /\ result[1].success
    /\ submits # <<>>
    /\ queries >= 2

\* C3: the fee blob is submitted only after the primary blob was submitted and its
\* settlement resolved to Success; when the primary settlement fails (or settle
\* returns Failure for any reason) the fee blob was never submitted.
C3_FeeOnlyAfterPrimarySuccess ==
    /\ \A i \in 1..Len(submits) :
          submits[i].role = "fee" =>
              /\ i > 1
              /\ submits[1].role = "merchant"
              /\ MerchantSucceeded
    /\ MerchantFailed => SubmitCount("fee") = 0
    /\ (mode = "settle" /\ result # undefined /\ ~result[1].success) =>
            SubmitCount("fee") = 0

\* the fee blob went out after a primary Success
C3_Witness ==
    /\ SubmitCount("fee") = 1
    /\ submits[2].blob = payload.feeTxBlob[1]
    /\ MerchantSucceeded

\* C4: once the primary settlement succeeded, settle returns the primary Success
\* record with the primary transaction id, whatever the fee submission did
\* (preliminary failure, validated-but-failed, timeout, or submit raising).
C4_PrimarySuccessIsReturned ==
    (pc = "done" /\ MerchantSucceeded) =>
        /\ result = merchantResult
        /\ result[1].success
        /\ result[1].transaction = txHash["merchant"]
        /\ result[1].transaction = payload.txBlob.id
        /\ ~thrown

\* the fee submit raised after a primary Success
C4_Witness ==
    /\ pc = "done"
    /\ MerchantSucceeded
    /\ feeResult.called
    /\ feeResult.threw

C6_AlwaysReturnsARecord ==
    pc = "done" => (~thrown /\ result # undefined)

ClaimedOrder ==
    <<"decode", "validate", "signature", "crossCheck", "destination", "amount",
      "asset", "partialPayment">>
Fails(k) == StepResult(ClaimedOrder[k], payload, requirements, config) # null
FirstFailing ==
    IF \E k \in 1..8 : Fails(k)
    THEN CHOOSE k \in 1..8 : Fails(k) /\ \A j \in 1..(k - 1) : ~Fails(j)
    ELSE 0

\* C7: verify evaluates decode, validate, signature, cross-check, destination,
\* amount, asset, partial-payment in this order and stops at the first step that
\* fails: the reason returned is that of the lowest-numbered failing step and no
\* later step is evaluated.
C7_EarliestFailingStepReported ==
    (pc # "start" /\ mode \in Modes) =>
        IF FirstFailing = 0
        THEN /\ Len(evaluated) >= 8
             /\ SubSeq(evaluated, 1, 8) = ClaimedOrder
             /\ ~thrown
        ELSE /\ evaluated = SubSeq(ClaimedOrder, 1, FirstFailing)
             /\ pc = "done"
             /\ LET res == StepResult(ClaimedOrder[FirstFailing], payload, requirements, config)
                IN  IF res = "throws" THEN thrown /\ verifyResult = undefined
                    ELSE verifyResult = Some(Invalid(res)) /\ ~thrown

\* a payload with a bad signature and too small an amount is rejected for its signature
C7_Witness ==
    /\ pc = "done"
    /\ Fails(3)
    /\ Fails(6)
    /\ FirstFailing = 3
    /\ verifyResult = Some(Invalid("invalid_signature"))

\* Whether the claimed amount agrees with the decoded one: the same variant, the
\* same identifying fields, and equal strings (drops) or equal numbers.
AmountAgrees(claimed, decoded) ==
    IF claimed.typeof = "string"
    THEN decoded.typeof = "string" /\ decoded.str = claimed.str
    ELSE /\ decoded.typeof = "object"
         /\ decoded.keys = claimed.keys
         /\ decoded.currency = claimed.currency
         /\ decoded.issuer = claimed.issuer
         /\ decoded.mpt_issuance_id = claimed.mpt_issuance_id
         /\ ~parseFloat(claimed.value).nan
         /\ ~parseFloat(decoded.value).nan
         /\ parseFloat(claimed.value).num * parseFloat(decoded.value).den
              = parseFloat(decoded.value).num * parseFloat(claimed.value).den

\* The claimed fields that disagree with the decoded blob.  The replay handle is
\* the ticket when one is claimed and the sequence number otherwise; the expiry
\* is a claimed field when the Authorization carries one.
Disagreeing(a, tx) ==
    { f \in {"account", "destination", "fee", "amount", "replayHandle", "expiry"} :
        CASE f = "account" -> a.account # tx.Account
          [] f = "destination" -> a.destination # tx.Destination
          [] f = "fee" -> a.fee # tx.Fee
          [] f = "amount" -> ~AmountAgrees(a.amount, tx.Amount)
          [] f = "replayHandle" ->
                IF a.ticketSequence # undefined
                THEN ~(tx.Sequence = 0 /\ tx.TicketSequence = a.ticketSequence)
                ELSE tx.Sequence # a.sequence
          [] f = "expiry" ->
                a.lastLedgerSequence # undefined
                /\ tx.LastLedgerSequence # a.lastLedgerSequence }

CrossCheckReasons ==
    { "authorization_mismatch_account", "authorization_mismatch_destination",
      "authorization_mismatch_fee", "authorization_mismatch_amount",
      "authorization_mismatch_sequence", "authorization_mismatch_last_ledger_sequence" }

NetworkReasons ==
    { "insufficient_balance", "insufficient_balance_for_fees", "invalid_sequence",
      "ticket_not_found", "transaction_will_expire_too_soon", "no_trust_line",
      "trust_line_limit_zero", "trust_line_frozen", "mpt_issuance_not_found",
      "mpt_not_transferable", "mpt_holder_not_authorized", "mpt_holder_locked",
      "mpt_insufficient_balance", "mpt_destination_not_authorized",
      "mpt_destination_locked" }

LocalReasons ==
    { "invalid_tx_blob", "invalid_transaction_structure", "invalid_signature",
      "signature_verification_failed", "destination_mismatch", "insufficient_amount",
      "invalid_amount_format", "asset_mismatch", "asset_mismatch_issuer",
      "asset_mismatch_issuance_id", "unsupported_asset_type",
      "partial_payment_not_allowed", "mpt_not_allowlisted" } \cup CrossCheckReasons

PassesOffline ==
    \A k \in 1..8 : ~Fails(k)
Allowlisted ==
    \E e \in config.MPT_ALLOWLIST :
        e.network = requirements.network
        /\ e.issuanceId = auth.amount.mpt_issuance_id

\* C9: a network check whose ledger request raised passes: verify never rejects
\* with a network reason right after a request that raised, and a payload that
\* passes the local checks is Valid when every ledger request raised.
C9_TransportErrorsSoftFail ==
    /\ (VerifyInvalid /\ verifyResult[1].invalidReason \in NetworkReasons) => answered.last
    /\ (mode = "verifyClient" /\ pc # "start" /\ PassesOffline
        /\ (isMPTAmount(auth.amount) => Allowlisted) /\ ~answered.any) =>
            /\ ~VerifyInvalid
            /\ pc = "done" => result = Some(Valid)

\* a restricted-asset payment found Valid although all of its ledger requests raised
C9_Witness ==
    /\ mode = "verifyClient"
    /\ pc = "done"
    /\ isMPTAmount(auth.amount)
    /\ Len(requests) >= 4
    /\ ~answered.any
    /\ result = Some(Valid)

\* C10: verify has issued no ledger request whenever it rejects at one of its local
\* steps; a native payment below the requirement is rejected insufficient_amount,
\* and a restricted-asset payment whose issuance is not in the allowlist of the
\* requirements' network is rejected mpt_not_allowlisted, without any request,
\* with or without a client.
C10_LocalRejectionWithoutRequests ==
    /\ (VerifyInvalid /\ verifyResult[1].invalidReason \in LocalReasons) => requests = <<>>
    /\ (mode \in Modes /\ pc # "start" /\ PassesOffline /\ isMPTAmount(auth.amount)
        /\ ~Allowlisted) =>
            verifyResult = Some(Invalid("mpt_not_allowlisted")) /\ requests = <<>>
    /\ (mode \in Modes /\ pc # "start" /\ FirstFailing = 6 /\ auth.amount.typeof = "string"
        /\ ~BigIntThrows(auth.amount.str) /\ ~BigIntThrows(requirements.maxAmountRequired)) =>
            verifyResult = Some(Invalid("insufficient_amount")) /\ requests = <<>>

\* an unlisted issuance rejected although a client was supplied
C10_Witness ==
    /\ mode = "verifyClient"
    /\ pc = "done"
    /\ verifyResult = Some(Invalid("mpt_not_allowlisted"))
    /\ requests = <<>>

PartialDelivery ==
    payload.txBlob.tx.Flags # undefined
    /\ (payload.txBlob.tx.Flags[1] \div 131072) % 2 = 1

\* C11: a decoded instruction whose Flags carry the partial-delivery bit, alone or
\* with other bits, is never found Valid; when steps 1-7 pass it is rejected with
\* partial_payment_not_allowed, and other flag bits alone are not rejected.
C11_PartialDeliveryRejected ==
    (mode \in Modes /\ pc # "start") =>
        /\ PartialDelivery => verifyResult # Some(Valid)
        /\ (PartialDelivery /\ \A k \in 1..7 : ~Fails(k)) =>
              /\ verifyResult = Some(Invalid("partial_payment_not_allowed"))
              /\ requests = <<>>
        /\ verifyResult = Some(Invalid("partial_payment_not_allowed")) => PartialDelivery

\* the partial-delivery bit combined with another flag bit, all earlier steps passing
C11_Witness ==
    /\ mode = "verifyClient"
    /\ pc = "done"
    /\ payload.txBlob.tx.Flags = Some(131073)
    /\ \A k \in 1..7 : ~Fails(k)
    /\ result = Some(Invalid("partial_payment_not_allowed"))

\* The variant of the claimed amount, and whether it is the asset the
\* requirements name: the native marker, an issuer address, or mpt:<issuance id>.
\* An object is of the variant whose type guard it satisfies; one that satisfies
\* neither guard has no variant.
Variant(amount) ==
    IF amount.typeof = "string" THEN "native"
    ELSE IF isIssuedCurrencyAmount(amount) THEN "issued"
    ELSE IF isMPTAmount(amount) THEN "restricted"
    ELSE "none"
RequiredVariant ==
    IF requirements.asset = <<"XRP">> THEN "native"
    ELSE IF requirements.asset[1] = "r" THEN "issued"
    ELSE IF requirements.asset[1] = "mpt:" THEN "restricted"
    ELSE "unknown"
AssetAgrees ==
    /\ Variant(auth.amount) = RequiredVariant
    /\ RequiredVariant = "issued" => auth.amount.issuer = requirements.asset
    /\ RequiredVariant = "restricted" =>
          auth.amount.mpt_issuance_id = requirements.asset[2]
AssetReasons == {"asset_mismatch", "asset_mismatch_issuer", "asset_mismatch_issuance_id"}

\* C12: verify never returns Valid when the claimed amount's variant differs from
\* the one the requirements' asset identifier asks for, nor when the variant is the
\* same but the issuer or issuance id differs; when steps 1-6 pass such a payment
\* is rejected with an asset reason.
C12_AssetMismatchNeverValid ==
    (mode \in Modes /\ pc # "start") =>
        /\ verifyResult = Some(Valid) => AssetAgrees
        /\ (~AssetAgrees /\ RequiredVariant # "unknown" /\ \A k \in 1..6 : ~Fails(k)) =>
              /\ verifyResult # undefined
              /\ verifyResult[1].invalidReason \in AssetReasons
              /\ requests = <<>>
        /\ (verifyResult # undefined /\ verifyResult[1].invalidReason \in AssetReasons) =>
              ~AssetAgrees

\* an issued amount of the right variant but another issuer than the one required
C12_Witness ==
    /\ mode = "verifyClient"
    /\ pc = "done"
    /\ Variant(auth.amount) = "issued"
    /\ RequiredVariant = "issued"
    /\ auth.amount.issuer # requirements.asset
    /\ \A k \in 1..6 : ~Fails(k)
    /\ result = Some(Invalid("asset_mismatch_issuer"))

\* An integer string: decimal digits, at least one, after an optional minus sign.
IsIntegerString(s) ==
    LET body == IF s # <<>> /\ Head(s) = "-" THEN Tail(s) ELSE s
    IN  body # <<>> /\ \A i \in 1..Len(body) : IsDigit(body[i])
IntegerOf(s) ==
    IF Head(s) = "-" THEN 0 - DigitsValue(Tail(s)) ELSE DigitsValue(s)

\* C13: for a native amount a and a requirement r that are integer strings,
\* checkAmount passes exactly when a >= r as integers and otherwise answers
\* insufficient_amount; when a or r is not an integer string it does not pass
\* (the claim: it answers invalid_amount_format).
C13_NativeExactComparison ==
    (mode = "checkAmount" /\ pc = "done" /\ auth.amount.typeof = "string") =>
        LET a == auth.amount.str
            r == requirements.maxAmountRequired
        IN  IF IsIntegerString(a) /\ IsIntegerString(r)
            THEN result[1] = IF IntegerOf(a) >= IntegerOf(r) THEN null
                             ELSE "insufficient_amount"
            ELSE result[1] # null

\* A numeric string, read generously: a number read to its last character, that
\* is an optional sign, digits with an optional fraction and an optional exponent,
\* or Infinity, or a 0x/0o/0b literal, with nothing left over.
IsNumericString(s) ==
    LET body == Unsigned(TrimEnd(TrimStart(s)))
        n == DigitRun(body)
        f == FractionAt(SubSeq(body, n + 1, Len(body)))
        x == ExponentAt(f.after)
    IN  \/ body = InfinityChars
        \/ (Radix(body) # 10 /\ body = TrimEnd(TrimStart(s)) /\ ~BigIntThrows(body))
        \/ /\ n + f.m > 0
           /\ \/ f.after = <<>>
              \/ (x.k > 0 /\ x.left = <<>>)

TrailingZeroPair == { <<"2", "5", ".", "5", "0">>, <<"2", "5", ".", "5">> }

\* C14: for an issued or restricted amount, checkAmount compares parsed numbers:
\* 25.50 and 25.5 meet each other as requirement, two numeric strings pass exactly
\* when value >= requirement, and a value that is not numeric is rejected.
C14_DecimalComparison ==
    (mode = "checkAmount" /\ pc = "done" /\ auth.amount.typeof = "object") =>
        LET v == auth.amount.value
            r == requirements.maxAmountRequired
        IN  /\ (v \in TrailingZeroPair /\ r \in TrailingZeroPair) => result[1] = null
            /\ (IsNumericString(v) /\ IsNumericString(r) /\ Radix(v) = 10 /\ Radix(r) = 10) =>
                  result[1] = IF NumLess(parseFloat(v), parseFloat(r))
                              THEN "insufficient_amount" ELSE null
            /\ ~IsNumericString(v) => result[1] # null

\* The fee advertised for the payment's tier: FEE_SCHEDULE.mpt for a restricted
\* asset, FEE_SCHEDULE.standard (null) for native and issued payments.
TierFee ==
    IF isMPTAmount(auth.amount) THEN config.FEE_MPT ELSE undefined
TierIsFree == TierFee = undefined \/ TierFee = Some(<<"0">>)

\* C15: settle submits a fee blob only for a payload that carries a
\* FeeAuthorization and whose tier fee is neither null nor "0".
C15_FeeOnlyForPaidTier ==
    (mode = "settle" /\ SubmitCount("fee") > 0) =>
        /\ payload.feeAuthorization # undefined
        /\ ~TierIsFree

\* What the fee verification of settle answers for this payload (null: pass).
FeeCheck == verifyFeePayload(payload, config.FEE_MPT, config)

\* C16: when the payment passed re-verification and the fee verification rejects
\* it, settle has returned Failure carrying the fee-verification reason and has
\* submitted neither the primary blob nor the fee blob.
C16_FeeRejectionBeforeSubmit ==
    (mode = "settle" /\ verifyResult = Some(Valid) /\ isMPTAmount(auth.amount)
     /\ FeeCheck # null) =>
        /\ pc = "done"
        /\ result = Some(Failure(FeeCheck, "undefined", settleNetwork))
        /\ submits = <<>>
        /\ merchantResult = undefined

\* a paid-tier payment whose fee blob pays another amount than its FeeAuthorization
\* claims, refused before any submit
C16_Witness ==
    /\ mode = "settle"
    /\ pc = "done"
    /\ verifyResult = Some(Valid)
    /\ payload.feeTxBlob # undefined
    /\ result = Some(Failure("fee_authorization_mismatch_amount", "undefined", settleNetwork))
    /\ submits = <<>>

FeeAdvertised == config.FEE_MPT
FeeIsZero == FeeAdvertised = undefined \/ FeeAdvertised = Some(<<"0">>)
FacilitatorConfigured ==
    config.FACILITATOR_ADDRESS # undefined /\ config.FACILITATOR_ADDRESS # Some("")
FeeFieldsAbsent == payload.feeTxBlob = undefined /\ payload.feeAuthorization = undefined
FeeFieldsComplete == payload.feeTxBlob # undefined /\ payload.feeAuthorization # undefined

\* C17: when the advertised fee is null or "0", verifyFeePayload passes for every
\* payload, whatever its fee fields and whether or not a facilitator account is
\* configured.
C17_ZeroFeeAlwaysPasses ==
    (mode = "verifyFee" /\ pc = "done" /\ FeeIsZero) => result = Some(null)

\* fee "0", an undecodable fee blob without FeeAuthorization, no facilitator account
C17_Witness ==
    /\ mode = "verifyFee"
    /\ pc = "done"
    /\ FeeAdvertised = Some(<<"0">>)
    /\ ~FacilitatorConfigured
    /\ payload.feeTxBlob # undefined
    /\ ~payload.feeTxBlob[1].decodable
    /\ payload.feeAuthorization = undefined
    /\ result = Some(null)

\* C18 as stated: when the advertised fee is non-zero and no facilitator account is
\* configured, fee verification rejects every payload, with or without fee
\* fields, as a configuration failure.
C18_UnconfiguredAlwaysRejects ==
    (mode = "verifyFee" /\ pc = "done" /\ ~FeeIsZero /\ ~FacilitatorConfigured) =>
        result = Some("fee_facilitator_not_configured")

\* C18 amended: when the advertised fee is non-zero and no facilitator account is
\* configured, fee verification rejects with fee_facilitator_not_configured every
\* payload that carries a fee blob or a FeeAuthorization, and passes a payload
\* that carries neither.
C18_UnconfiguredRejectsFeeFields ==
    (mode = "verifyFee" /\ pc = "done" /\ ~FeeIsZero /\ ~FacilitatorConfigured) =>
        result = IF FeeFieldsAbsent THEN Some(null)
                 ELSE Some("fee_facilitator_not_configured")

\* a fee blob without FeeAuthorization, refused for want of a facilitator account
C18_Witness ==
    /\ mode = "verifyFee"
    /\ pc = "done"
    /\ ~FeeIsZero
    /\ config.FACILITATOR_ADDRESS = undefined
    /\ payload.feeTxBlob # undefined
    /\ payload.feeAuthorization = undefined
    /\ result = Some("fee_facilitator_not_configured")

\* C19 as stated: when the advertised fee is non-zero and the fee blob or the
\* FeeAuthorization is absent, the payment is rejected with fee_payment_required.
C19_MissingFeeFieldsRejected ==
    (mode = "verifyFee" /\ pc = "done" /\ ~FeeIsZero /\ ~FeeFieldsComplete) =>
        result = Some("fee_payment_required")

\* C19 amended: when the advertised fee is non-zero, a facilitator account is
\* configured and the fee blob or the FeeAuthorization is absent, the payment is
\* rejected with fee_payment_required.
C19_MissingFeeFieldsRejectedWhenConfigured ==
    (mode = "verifyFee" /\ pc = "done" /\ ~FeeIsZero /\ FacilitatorConfigured
     /\ ~FeeFieldsComplete) =>
        result = Some("fee_payment_required")

\* a well-formed fee blob sent without its FeeAuthorization to a configured facilitator
C19_Witness ==
    /\ mode = "verifyFee"
    /\ pc = "done"
    /\ ~FeeIsZero
    /\ FacilitatorConfigured
    /\ payload.feeTxBlob # undefined
    /\ payload.feeTxBlob[1].decodable
    /\ payload.feeTxBlob[1].signature = "valid"
    /\ payload.feeAuthorization = undefined
    /\ result = Some("fee_payment_required")

\* Everything a fee payment has to satisfy when a fee is due.
FeeConditions ==
    /\ FeeFieldsComplete
    /\ LET blob == payload.feeTxBlob[1]
           claimed == payload.feeAuthorization[1]
       IN  /\ blob.decodable
           /\ blob.signature = "valid"
           /\ blob.tx.Account = claimed.account
           /\ blob.tx.Destination = claimed.destination
           /\ blob.tx.Amount = DropsAmount(claimed.amount)
           /\ Some(claimed.destination) = config.FACILITATOR_ADDRESS
           /\ Some(claimed.amount) = FeeAdvertised
           /\ claimed.account = auth.account

\* C20: when the advertised fee is non-zero and a facilitator account is
\* configured, verifyFeePayload passes only if the fee blob decodes, its signature
\* verifies, its source, destination and amount are those the FeeAuthorization
\* claims, the claimed destination is the facilitator account, the claimed amount
\* is the advertised fee and the claimed account is the primary payer; it rejects
\* as soon as one of them fails, and passes when all hold.
C20_FeePassesOnlyWhenAllHold ==
    (mode = "verifyFee" /\ pc = "done" /\ ~FeeIsZero /\ FacilitatorConfigured) =>
        (result = Some(null) <=> FeeConditions)

\* a correct fee payment to the facilitator signed by another account than the payer
C20_Witness ==
    /\ mode = "verifyFee"
    /\ pc = "done"
    /\ ~FeeIsZero
    /\ FacilitatorConfigured
    /\ FeeFieldsComplete
    /\ payload.feeTxBlob[1].tx.Account = "rOther"
    /\ auth.account = "rPayer"
    /\ result = Some("fee_payer_mismatch")

\* The preliminary codes submitAndWait takes for final: tef*, tem*, tec*.
FinalCode(reply) == reply.ok /\ reply.engine_result[1] \in {"tef", "tem", "tec"}
\* transaction: txHash ?? ""
HashOrEmpty(reply) == IF reply.hash = undefined THEN "" ELSE reply.hash[1]

\* C21: when client.submit answers a tef*, tem* or tec* code, submitAndWait
\* returns Failure at once with the mapped reason (and the hash, if any), having
\* issued no tx query: the call does not enter the polling loop.
C21_FinalCodeReturnsAtOnce ==
    [][\A reply \in SubmitReplies(blobOf(phase)) :
          (SubmitGot(reply) /\ FinalCode(reply)) =>
              /\ pc' = "done"
              /\ queries' = 0
              /\ finalReply' = [ph \in Phases |->
                                  IF ph = phase THEN undefined ELSE finalReply[ph]]
              /\ LET f == Failure(mapEngineResult(reply.engine_result), HashOrEmpty(reply), "")
                 IN  IF phase = "merchant"
                     THEN /\ merchantResult' = Some([f EXCEPT !.network = settleNetwork])
                          /\ result' = merchantResult'
                     ELSE feeResult'.response = Some(f)]_vars

\* the primary submit answered tecPATH_DRY and settle returned without a tx query
C21_Witness ==
    /\ pc = "done"
    /\ Len(submits) = 1
    /\ MerchantFailed
    /\ merchantResult[1].errorReason = "destination_cannot_receive_asset"
    /\ queries = 0
    /\ finalReply["merchant"] = undefined

\* A tx query that raised, or that answered a transaction not yet validated.
Inconclusive(reply) == ~reply.ok \/ ~reply.validated
\* The SettleResponse the submitAndWait of phase ph has handed back once the
\* step is taken (<<>> if none yet).
ResponseAfter(ph) == IF ph = "merchant" THEN merchantResult' ELSE feeResult'.response

\* C22: a tx query that raises, or that reports the transaction not yet
\* validated, only spends an attempt: while attempts remain the call stays in the
\* polling loop with no result, and a query answering validated tesSUCCESS yields
\* Success however many inconclusive queries came before it.
C22_InconclusiveQueryKeepsPolling ==
    [][\A reply \in TxReplies(blobOf(phase)) :
          /\ (PollGot(reply) /\ Inconclusive(reply)) =>
                /\ attempt' = attempt + 1
                /\ attempt' < MAX_ATTEMPTS =>
                      /\ pc' = "poll"
                      /\ UNCHANGED <<result, merchantResult, feeResult, finalReply>>
                /\ attempt' = MAX_ATTEMPTS =>
                      ResponseAfter(phase) = Some(IF phase = "merchant"
                                                THEN [timeoutResult(txHash[phase])
                                                        EXCEPT !.network = settleNetwork]
                                                ELSE timeoutResult(txHash[phase]))
          /\ (PollGot(reply) /\ ValidatedSuccess(Some(reply))) =>
                /\ ResponseAfter(phase) # undefined
                /\ ResponseAfter(phase)[1].success
                /\ ResponseAfter(phase)[1].transaction = txHash[phase]]_vars

\* the primary settlement succeeded at the last attempt, after inconclusive queries
C22_Witness ==
    /\ pc = "done"
    /\ SubmitCount("fee") = 0
    /\ MerchantSucceeded
    /\ attempt = MAX_ATTEMPTS - 1
    /\ queries = MAX_ATTEMPTS

\* The submitAndWait of phase ph polled and returned without a validated reply.
PolledInVain(ph) ==
    /\ txHash[ph] # "undefined"
    /\ finalReply[ph] = undefined
    /\ IF ph = "merchant" THEN merchantResult # undefined ELSE feeResult.response # undefined

PollingBounded ==
    /\ queries <= MAX_ATTEMPTS
    /\ attempt <= MAX_ATTEMPTS
    /\ PolledInVain("merchant") =>
          /\ merchantResult =
               Some(Failure("settlement_timeout", txHash["merchant"], settleNetwork))
          /\ txHash["merchant"] = payload.txBlob.id
          /\ result = merchantResult
          /\ queries = MAX_ATTEMPTS
    /\ PolledInVain("fee") =>
          /\ feeResult.response = Some(Failure("settlement_timeout", txHash["fee"], ""))
          /\ txHash["fee"] = payload.feeTxBlob[1].id
          /\ queries = MAX_ATTEMPTS

\* C23: submitAndWait issues at most maxAttempts tx queries; if none of them
\* answers validated it returns Failure settlement_timeout carrying the
\* transaction id; and a call that has reached submitAndWait ends, whatever the
\* ledger answers.
C23_PollingTerminates ==
    /\ []PollingBounded
    /\ (pc \in {"submit", "poll"}) ~> (pc = "done")

\* the primary settlement timed out after maxAttempts queries
C23_Witness ==
    /\ pc = "done"
    /\ PolledInVain("merchant")
    /\ queries = MAX_ATTEMPTS
    /\ result # undefined
    /\ result[1].errorReason = "settlement_timeout"

\* Scenario A: a native payment, validly signed, whose claimed fields are those
\* of the blob, paying the required destination at least the required amount.
ScenarioA ==
    /\ mode = "settle"
    /\ requirements.asset = <<"XRP">>
    /\ payload.txBlob.decodable
    /\ payload.txBlob.tx.validates
    /\ payload.txBlob.signature = "valid"
    /\ auth = AuthorizationOf(payload.txBlob.tx)
    /\ auth.amount.typeof = "string"
    /\ auth.destination = requirements.payTo
    /\ IsIntegerString(auth.amount.str)
    /\ IsIntegerString(requirements.maxAmountRequired)
    /\ IntegerOf(auth.amount.str) >= IntegerOf(requirements.maxAmountRequired)

\* The ledger reported the primary transaction validated with tesSUCCESS.
PrimaryValidated ==
    /\ ValidatedSuccess(finalReply["merchant"])
    /\ finalReply["merchant"][1].Account = payload.txBlob.tx.Account

ScenarioASuccess ==
    Some(Success(payload.txBlob.id, settleNetwork, auth.account))

SubmittedAsReceived ==
    \A i \in 1..Len(submits) :
        /\ submits[i].role = "merchant" => submits[i].blob = payload.txBlob
        /\ submits[i].role = "fee" =>
              (payload.feeTxBlob # undefined /\ submits[i].blob = payload.feeTxBlob[1])

\* C25: the blob handed to client.submit is the payload's txBlob (the fee blob
\* its feeTxBlob), and no step of verify or settle changes the payload: its
\* blobs, its Authorization and its FeeAuthorization stay as received.
C25_BlobNeverMutated ==
    /\ []SubmittedAsReceived
    /\ [][payload' = payload /\ requirements' = requirements]_vars

\* both blobs went to the ledger and the call returned
C25_Witness ==
    /\ pc = "done"
    /\ Len(submits) = 2
    /\ submits[1].blob = payload.txBlob
    /\ submits[2].blob = payload.feeTxBlob[1]
    /\ submits[1].blob # submits[2].blob

\* What settle returns, given what its own verify and its own submitAndWait
\* calls returned.
OwnResult ==
    IF mode # "settle" THEN verifyResult[1]
    ELSE IF settleAfterVerify(verifyResult[1], payload, config) # undefined
         THEN settleAfterVerify(verifyResult[1], payload, config)[1]
    ELSE IF merchantResult = undefined THEN settleCatch("disconnected")
    ELSE merchantResult[1]

\* The running call's locals speak of its own payload only: the blobs it
\* submitted, the transaction ids it polls for, the replies it took for final,
\* its verification result and the result it returned.
OwnState ==
    /\ SubmittedAsReceived
    /\ txHash["merchant"] \in {"undefined", payload.txBlob.id}
    /\ txHash["fee"] # "undefined" =>
          (payload.feeTxBlob # undefined /\ txHash["fee"] = payload.feeTxBlob[1].id)
    /\ finalReply["merchant"] # undefined =>
          finalReply["merchant"][1].Account \in {"undefined", payload.txBlob.tx.Account}
    /\ merchantResult # undefined =>
          /\ merchantResult[1].network = settleNetwork
          /\ merchantResult[1].transaction \in {"", "undefined", payload.txBlob.id}
          /\ merchantResult[1].payer \in {"undefined", payload.txBlob.tx.Account}
    /\ (pc # "start" /\ verifyOffline(payload, requirements, config).outcome = "invalid") =>
          verifyResult =
              Some(Invalid(verifyOffline(payload, requirements, config).reason))
    /\ (verifyResult # undefined /\ ~verifyResult[1].isValid
        /\ verifyOffline(payload, requirements, config).outcome = "pass") =>
          /\ verifyResult[1].invalidReason \in NetworkReasons
          /\ answered.last
    /\ (pc = "done" /\ ~thrown) => result = Some(OwnResult)

\* C26: two verify/settle calls on different payloads run interleaved at their
\* awaits.  A step of one call changes neither the other call's local state nor
\* the configuration, and the running call's state and result are those its own
\* payload and the ledger's answers to its own requests determine.
C26_CallsShareNoState ==
    /\ []OwnState
    /\ [][/\ config' = config
          /\ \/ suspended' = suspended
             \/ /\ suspended # <<>>
                /\ suspended' = <<Locals>>
                /\ Locals' = suspended[1]]_vars

\* a settle returned Success for its own transaction while the other settle,
\* which had started first, was still polling for its own
C26_Witness ==
    /\ pc = "done"
    /\ mode = "settle"
    /\ result # undefined
    /\ result[1].success
    /\ result[1].transaction = payload.txBlob.id
    /\ suspended # <<>>
    /\ suspended[1].pc = "poll"
    /\ suspended[1].attempt >= 1
    /\ suspended[1].txHash["merchant"] = suspended[1].payload.txBlob.id
    /\ suspended[1].payload.txBlob.id # payload.txBlob.id

\* C27: verify answers Valid only for a blob whose decoded transaction is a
\* Payment; a validly signed transaction of another type carrying the same
\* Account, Destination, Amount, Fee and Sequence is not reported Valid.
C27_OnlyPaymentsValid ==
    verifyResult = Some(Valid) => payload.txBlob.tx.TransactionType = "Payment"

\* An amount object with fields of more than one variant.
MixedVariants(amount) ==
    /\ amount.typeof = "object"
    /\ "mpt_issuance_id" \in amount.keys
    /\ {"currency", "issuer"} \cap amount.keys # {}

\* C28: no amount is both an issued and a restricted amount for the
\* classifiers, and verify never answers Valid for a claimed amount that
\* carries fields of more than one variant.
C28_ClassificationUnambiguous ==
    /\ ~(isIssuedCurrencyAmount(auth.amount) /\ isMPTAmount(auth.amount))
    /\ verifyResult = Some(Valid) => ~MixedVariants(auth.amount)

AllOfflinePass ==
    \A i \in 1..Len(OfflineSteps) :
        StepResult(OfflineSteps[i], payload, requirements, config) = null

\* The network checks of a payment, in the order verify calls them.
NetworkSteps ==
    <<"balance", "expiry">>
    \o (IF isIssuedCurrencyAmount(auth.amount) THEN <<"trustLine">> ELSE <<>>)
    \o (IF isMPTAmount(auth.amount)
        THEN <<"mptIssuance", "mptHolder", "mptDestination">> ELSE <<>>)

\* The reasons with which each network check rejects.
StepReasons(step) ==
    CASE step = "balance" ->
            {"insufficient_balance", "insufficient_balance_for_fees", "invalid_sequence",
             "ticket_not_found"}
      [] step = "expiry" -> {"transaction_will_expire_too_soon"}
      [] step = "trustLine" -> {"no_trust_line", "trust_line_limit_zero", "trust_line_frozen"}
      [] step = "mptIssuance" -> {"mpt_issuance_not_found", "mpt_not_transferable"}
      [] step = "mptHolder" ->
            {"mpt_holder_not_authorized", "mpt_holder_locked", "mpt_insufficient_balance"}
      [] step = "mptDestination" ->
            {"mpt_destination_not_authorized", "mpt_destination_locked"}
      [] OTHER -> {}

\* The network checks evaluated so far.
NetworkEvaluated == SubSeq(evaluated, Len(OfflineSteps) + 1, Len(evaluated))

BalanceThreshold ==
    IF auth.amount.typeof = "string"
    THEN IntegerOf(auth.amount.str) + IntegerOf(auth.fee) + RESERVE
    ELSE IntegerOf(auth.fee) + RESERVE

BalanceReasons == {"insufficient_balance", "insufficient_balance_for_fees"}

\* C30: when account_info answers, the balance check rejects (for its balance)
\* exactly when the account's balance is below the threshold of the payment's
\* variant; so a restricted payment from an account holding less than fee +
\* reserve is rejected.
C30_BalanceThreshold ==
    [][\A reply \in AccountInfoReplies :
          (CheckAccountBalanceGot(reply) /\ reply.ok
           /\ (auth.amount.typeof = "string" => IsIntegerString(auth.amount.str))) =>
              ((verifyResult' # undefined
                /\ verifyResult'[1].invalidReason \in BalanceReasons)
               <=> reply.Balance < BalanceThreshold)]_vars

\* The account_info step ended verify with one of reasons.
RejectedFor(reasons) ==
    /\ verifyResult' # undefined
    /\ verifyResult'[1].invalidReason \in reasons

\* C31: for every amount variant, when account_info answers with a sufficient
\* balance, a claimed sequence number that differs from the account's is rejected
\* with invalid_sequence and a claimed ticket is looked up; the lookup rejects a
\* ticket that is not among the account's tickets with ticket_not_found and
\* passes when the lookup fails; a ticketed payment from an account below the
\* balance threshold is rejected for its balance before any ticket lookup.
C31_ReplayHandleChecked ==
    [][/\ \A reply \in AccountInfoReplies :
            (CheckAccountBalanceGot(reply) /\ reply.ok
             /\ (reply.Balance < BalanceThreshold => auth.ticketSequence # undefined)) =>
               IF reply.Balance < BalanceThreshold THEN RejectedFor(BalanceReasons)
               ELSE IF auth.ticketSequence # undefined THEN pc' = "step9t"
               ELSE IF auth.sequence # reply.Sequence THEN RejectedFor({"invalid_sequence"})
               ELSE pc' = "step10"
       /\ \A reply \in AccountObjectsReplies :
            CheckTicketGot(reply) =>
               IF reply.ok /\ auth.ticketSequence[1] \notin reply.tickets
               THEN RejectedFor({"ticket_not_found"})
               ELSE pc' = "step10"]_vars

\* The claimed replay handle and the decoded one are of the same kind and equal:
\* ticket against ticket (the decoded Sequence being the sentinel 0), or sequence
\* number against a sequence-based transaction (one that carries no ticket).
HandleAgrees(a, tx) ==
    IF a.ticketSequence # undefined
    THEN tx.Sequence = 0 /\ tx.TicketSequence = a.ticketSequence
    ELSE tx.Sequence = a.sequence /\ tx.TicketSequence = undefined

\* C32: the cross-check passes only if the claimed replay handle and the decoded
\* one agree kind for kind.
C32_HandleComparedKindForKind ==
    (mode = "crossCheck" /\ pc = "done" /\ result = Some(null)) =>
        HandleAgrees(auth, payload.txBlob.tx)

\* verify went on after the step: no answer yet, or Valid.
StepPassed == verifyResult' = undefined \/ verifyResult'[1].isValid

ExpiryReasons == {"transaction_will_expire_too_soon"}

\* C33: when an expiry height L is claimed and the ledger answers its height H,
\* the expiry check passes exactly when L >= H + 4 and otherwise rejects with
\* transaction_will_expire_too_soon; when no expiry height is claimed the check
\* passes without asking the ledger.
C33_ExpiryBuffer ==
    [][/\ \A reply \in LedgerIndexReplies :
            (CheckLedgerExpiryGot(reply) /\ reply.ok) =>
               LET L == auth.lastLedgerSequence[1]
                   H == reply.ledgerIndex
               IN  /\ StepPassed <=> L - H >= EXPIRY_BUFFER
                   /\ ~StepPassed <=> RejectedFor(ExpiryReasons)
       /\ (pc = "step10" /\ auth.lastLedgerSequence = undefined /\ pc' # pc) =>
            StepPassed /\ requests' = requests]_vars

\* an expiry height of 20 rejected: the ledger's height was 17, three below it
C33_Witness ==
    /\ mode = "verifyClient"
    /\ pc = "done"
    /\ auth.lastLedgerSequence = Some(20)
    /\ requests = <<"account_info", "ledger_index">>
    /\ answered.last
    /\ verifyResult = Some(Invalid("transaction_will_expire_too_soon"))

\* The destination's trust lines to the issuer for the currency of the payment.
LinesFor(reply) == { l \in reply.lines : l.currency = auth.amount.currency }
PositiveLimit(l) == NumLess(parseFloat(<<"0">>), parseFloat(l.limit))

\* C34: when account_lines answers, the trust-line check passes only if the
\* destination holds a line for the currency with a positive limit and no freeze;
\* a missing line gives no_trust_line, a zero limit trust_line_limit_zero, a
\* frozen line trust_line_frozen; when the lookup raises the check passes; and
\* the check runs for issued payments only, for each one that reaches it.
C34_TrustLine ==
    /\ [][\A reply \in AccountLinesReplies :
            CheckTrustLineGot(reply) =>
               IF ~reply.ok THEN StepPassed
               ELSE IF LinesFor(reply) = {} THEN RejectedFor({"no_trust_line"})
               ELSE IF \E l \in LinesFor(reply) : ~PositiveLimit(l)
                    THEN RejectedFor({"trust_line_limit_zero"})
               ELSE IF \E l \in LinesFor(reply) : l.freeze_peer
                    THEN RejectedFor({"trust_line_frozen"})
               ELSE StepPassed]_vars
    /\ []((mode \in Modes /\ (pc = "step11" \/ \E i \in 1..Len(requests) :
                                                  requests[i] = "account_lines")) =>
              isIssuedCurrencyAmount(auth.amount))
    /\ []((mode \in {"verifyClient", "settle"} /\ verifyResult = Some(Valid)
           /\ isIssuedCurrencyAmount(auth.amount)) =>
              \E i \in 1..Len(requests) : requests[i] = "account_lines")

\* scenario C: an issued payment to a destination without a trust line
C34_Witness ==
    /\ mode = "verifyClient"
    /\ pc = "done"
    /\ isIssuedCurrencyAmount(auth.amount)
    /\ requests # <<>>
    /\ requests[Len(requests)] = "account_lines"
    /\ answered.last
    /\ verifyResult = Some(Invalid("no_trust_line"))

\* What a ledger entry says: its flag bit, and the balance of an MPToken entry.
HasFlag(node, bit) == node.Flags # undefined /\ (node.Flags[1] \div bit) % 2 = 1
HeldBalance(node) == IF node.MPTAmount # undefined THEN IntegerOf(node.MPTAmount[1]) ELSE 0

RestrictedRequests ==
    <<"ledger_entry_issuance", "ledger_entry_holder", "ledger_entry_destination">>

\* C35: for a restricted payment, when the lookups answer: the issuance step
\* passes only for an existing issuance with the transferable flag, the holder
\* step only for an existing, unlocked source entry whose balance is at least the
\* claimed amount, the destination step only for an existing, unlocked destination
\* entry; each violated condition gives its own reason; and verify with a client
\* answers Valid only after the three steps, issued in this order.
C35_RestrictedChecks ==
    /\ [][/\ \A reply \in IssuanceReplies :
              (CheckMptIssuanceGot(reply) /\ reply.ok) =>
                 IF reply.node = undefined THEN RejectedFor({"mpt_issuance_not_found"})
                 ELSE IF ~HasFlag(reply.node[1], tfMPTCanTransfer)
                      THEN RejectedFor({"mpt_not_transferable"})
                 ELSE pc' = "step14"
          /\ \A reply \in MPTokenReplies :
              (CheckMptHolderGot(reply) /\ reply.ok) =>
                 IF reply.node = undefined THEN RejectedFor({"mpt_holder_not_authorized"})
                 ELSE IF HasFlag(reply.node[1], lsfMPTLocked)
                      THEN RejectedFor({"mpt_holder_locked"})
                 ELSE IF HeldBalance(reply.node[1]) < IntegerOf(auth.amount.value)
                      THEN RejectedFor({"mpt_insufficient_balance"})
                 ELSE pc' = "step15"
          /\ \A reply \in MPTokenReplies :
              (CheckMptDestinationGot(reply) /\ reply.ok) =>
                 IF reply.node = undefined
                 THEN RejectedFor({"mpt_destination_not_authorized"})
                 ELSE IF HasFlag(reply.node[1], lsfMPTLocked)
                      THEN RejectedFor({"mpt_destination_locked"})
                 ELSE verifyResult' = Some(Valid)]_vars
    /\ []((mode \in {"verifyClient", "settle"} /\ verifyResult = Some(Valid)
           /\ isMPTAmount(auth.amount)) =>
              /\ Len(requests) >= 3
              /\ SubSeq(requests, Len(requests) - 2, Len(requests)) = RestrictedRequests)

\* a restricted payment of 10 from a holder whose entry holds 9
C35_Witness ==
    /\ mode = "verifyClient"
    /\ pc = "done"
    /\ isMPTAmount(auth.amount)
    /\ auth.amount.value = <<"1", "0">>
    /\ requests # <<>>
    /\ requests[Len(requests)] = "ledger_entry_holder"
    /\ verifyResult = Some(Invalid("mpt_insufficient_balance"))

\* A preliminary result that is provisionally accepted: tesSUCCESS or a ter* code.
Provisional(reply) ==
    reply.engine_result = <<"tes", "SUCCESS">> \/ reply.engine_result[1] = "ter"

\* C36: when client.submit answers, submitAndWait goes on to poll only for a
\* provisionally accepted result that came with a transaction id; for every other
\* preliminary result, and without an id, it returns Failure without a tx query.
C36_PollsOnlyProvisional ==
    [][\A reply \in SubmitReplies(blobOf(phase)) :
          (SubmitGot(reply) /\ reply.ok) =>
             IF Provisional(reply) /\ reply.hash # undefined
             THEN pc' = "poll"
             ELSE /\ pc' # "poll"
                  /\ queries' = 0
                  /\ ResponseAfter(phase) # undefined
                  /\ ~ResponseAfter(phase)[1].success]_vars

WithClient == mode \in {"verifyClient", "settle"}
AskedFor(command) == \E i \in 1..Len(requests) : requests[i] = command

\* C37: when verify answers Valid with a client, the expiry height that the
\* decoded blob carries has been checked against the ledger: a blob with an expiry
\* height is Valid only after the ledger height was asked for, and when the
\* lookup answers H the step passes only if that height is at least H + 4.
C37_SignedExpiryChecked ==
    /\ []((WithClient /\ verifyResult = Some(Valid)
           /\ payload.txBlob.tx.LastLedgerSequence # undefined) =>
              AskedFor("ledger_index"))
    /\ [][\A reply \in LedgerIndexReplies :
            (CheckLedgerExpiryGot(reply) /\ reply.ok /\ StepPassed) =>
               \/ payload.txBlob.tx.LastLedgerSequence = undefined
               \/ payload.txBlob.tx.LastLedgerSequence[1] >=
                      reply.ledgerIndex + EXPIRY_BUFFER]_vars

\* C38: every fee blob that settle submits has passed the full fee verification
\* against a non-zero advertised fee: it decodes, its signature verifies, and it
\* pays exactly the advertised fee to the configured facilitator account from the
\* primary payer, whatever the asset variant of the primary payment.
C38_FeeBlobVerifiedBeforeSubmit ==
    (mode = "settle" /\ SubmitCount("fee") > 0) =>
        /\ ~TierIsFree
        /\ FacilitatorConfigured
        /\ FeeConditions

\* Both calls have returned Success.
BothSucceeded ==
    /\ result # undefined
    /\ result[1].success
    /\ suspended # <<>>
    /\ suspended[1].result # undefined
    /\ suspended[1].result[1].success

\* C39: against a ledger that applies a blob at most once and answers tef* for
\* a blob already applied, of two settle calls that carry the same blob, one after
\* the other or interleaved, at most one returns Success; and a submission made
\* once the blob is validated ends the call with Failure.
C39_AtMostOneSuccess ==
    /\ []~BothSucceeded
    /\ [][\A reply \in SubmitReplies(blobOf(phase)) :
            (SubmitGot(reply) /\ ledger.status = "validated") =>
               result' # undefined /\ ~result'[1].success]_vars

\* C40: once disconnectClient has completed, no reconnect timer fires, whatever
\* the order of 'disconnected' events, timers and the shutdown call, and
\* getClient answers undefined for every network.
C40_ShutdownPreventsReconnect ==
    /\ [][\A n \in NetworkSet : TimerFires(n) => pool.shutdown # "done"]_vars
    /\ [](pool.shutdown = "done" => \A n \in NetworkSet : getClient(n) = undefined)

=============================================================================
